---------------------------- MODULE Spec2Model ----------------------------
(***************************************************************************)
(* A model of the bank-statement extraction pipeline of financ-advisor-ai  *)
(* (src/backend): the four parsers (AdvancedBankStatementParser,           *)
(* BankStatementParser, EnhancedPDFParser with IndianBankParser and        *)
(* GeminiPDFParser, FreePDFParser) and the upload_statement handler.       *)
(*                                                                         *)
(* Text is modelled as text: a line is a string, and every regular         *)
(* expression, strptime format and float() conversion of the source is an  *)
(* operator that scans the string character by character.  Amounts are     *)
(* integers in hundredths of a rupee (450.00 is 45000); a calendar date is *)
(* its proleptic Gregorian ordinal (datetime.toordinal), 0 when there is   *)
(* none.                                                                   *)
(***************************************************************************)
EXTENDS Integers, Sequences, FiniteSets, TLC

VARIABLES
    entry,      \* what this run exercises: a parser ("advanced", "enhanced", "free",
                \* "csv") called directly, or the "upload" handler
    file,       \* the document handed to the parser
    config,     \* the installation: which libraries and services are there
    result,     \* what the calls of the parser returned, in order
    now,        \* the wall clock, as a day ordinal (datetime.now())
    folder,     \* UPLOAD_FOLDER: the paths that exist and the content of each
    req,        \* the upload_statement requests, each with its position in the handler
    wire,       \* the request to the AI service: where the call is, and whether the
                \* service ever answers it
    summary     \* the summaries computed of the transactions, in order

vars == <<entry, file, config, result, now, folder, req, wire, summary>>

-----------------------------------------------------------------------------
(* Characters and strings (Python str)                                     *)

Ch(s, i) == SubSeq(s, i, i)

DigitChars == {"0", "1", "2", "3", "4", "5", "6", "7", "8", "9"}
LowerAlpha == "abcdefghijklmnopqrstuvwxyz"
UpperAlpha == "ABCDEFGHIJKLMNOPQRSTUVWXYZ"
Rupee == "₹"

IsDigit(c) == c \in DigitChars
IsLowerCh(c) == \E k \in 1..26 : Ch(LowerAlpha, k) = c
IsUpperCh(c) == \E k \in 1..26 : Ch(UpperAlpha, k) = c
IsAlpha(c) == IsLowerCh(c) \/ IsUpperCh(c)
\* \s of the re module, for the characters a line or a cell can hold
IsSpace(c) == c \in {" ", "\t", "\n", "\r"}
\* \w of the re module
IsWordCh(c) == IsDigit(c) \/ IsAlpha(c) \/ c = "_"

LowerCh(c) ==
    IF IsUpperCh(c)
    THEN Ch(LowerAlpha, CHOOSE k \in 1..26 : Ch(UpperAlpha, k) = c)
    ELSE c

UpperCh(c) ==
    IF IsLowerCh(c)
    THEN Ch(UpperAlpha, CHOOSE k \in 1..26 : Ch(LowerAlpha, k) = c)
    ELSE c

\* the least element of a non-empty set of numbers
MinOf(S) == CHOOSE x \in S : \A y \in S : x <= y

RECURSIVE MapRange(_, _, _, _)
MapRange(s, lo, hi, up) ==
    IF lo > hi THEN ""
    ELSE IF lo = hi THEN (IF up THEN UpperCh(Ch(s, lo)) ELSE LowerCh(Ch(s, lo)))
    ELSE LET mid == (lo + hi) \div 2 IN
         MapRange(s, lo, mid, up) \o MapRange(s, mid + 1, hi, up)

\* str.lower() and str.upper()
Lower(s) == MapRange(s, 1, Len(s), FALSE)
Upper(s) == MapRange(s, 1, Len(s), TRUE)

\* s[i:].startswith(p), 1-based
StartsAt(s, i, p) == i >= 1 /\ i + Len(p) - 1 <= Len(s) /\ SubSeq(s, i, i + Len(p) - 1) = p

\* str.find from position i, 1-based; 0 when p does not occur
FindFrom(s, i, p) ==
    LET M == {k \in i..(Len(s) - Len(p) + 1) : SubSeq(s, k, k + Len(p) - 1) = p} IN
    IF M = {} THEN 0 ELSE MinOf(M)

Find(s, p) == FindFrom(s, 1, p)

\* p in s
Contains(s, p) == \E k \in 1..(Len(s) - Len(p) + 1) : SubSeq(s, k, k + Len(p) - 1) = p

\* any(k in s for k in ks)
ContainsAny(s, ks) == \E k \in ks : Contains(s, k)

\* the end of the run of characters of a class that starts at i (i - 1 when s[i] is
\* not in the class); the three classes the patterns use
DigitRunEnd(s, i) ==
    LET B == {k \in i..Len(s) : ~IsDigit(Ch(s, k))} IN
    IF i > Len(s) THEN i - 1 ELSE IF B = {} THEN Len(s) ELSE MinOf(B) - 1

DigitCommaRunEnd(s, i) ==
    LET B == {k \in i..Len(s) : ~(IsDigit(Ch(s, k)) \/ Ch(s, k) = ",")} IN
    IF i > Len(s) THEN i - 1 ELSE IF B = {} THEN Len(s) ELSE MinOf(B) - 1

SpaceRunEnd(s, i) ==
    LET B == {k \in i..Len(s) : ~IsSpace(Ch(s, k))} IN
    IF i > Len(s) THEN i - 1 ELSE IF B = {} THEN Len(s) ELSE MinOf(B) - 1

\* str.strip()
Strip(s) ==
    LET K == {k \in 1..Len(s) : ~IsSpace(Ch(s, k))} IN
    IF K = {} THEN ""
    ELSE SubSeq(s, MinOf(K), CHOOSE x \in K : \A y \in K : y <= x)

\* str.replace(p, "") for a non-empty p: every occurrence, left to right
RECURSIVE RemoveAllFrom(_, _, _)
RemoveAllFrom(s, i, p) ==
    LET j == FindFrom(s, i, p) IN
    IF j = 0 THEN SubSeq(s, i, Len(s))
    ELSE SubSeq(s, i, j - 1) \o RemoveAllFrom(s, j + Len(p), p)

RemoveAll(s, p) == RemoveAllFrom(s, 1, p)

\* int() of a string of digits
DigitVal(c) == CHOOSE k \in 0..9 : Ch("0123456789", k + 1) = c

RECURSIVE IntOfFrom(_, _, _)
IntOfFrom(s, i, acc) ==
    IF i > Len(s) THEN acc ELSE IntOfFrom(s, i + 1, acc * 10 + DigitVal(Ch(s, i)))

IntOf(s) == IntOfFrom(s, 1, 0)

\* str.isdigit() for the characters above
IsDigits(s) == Len(s) > 0 /\ DigitRunEnd(s, 1) = Len(s)

-----------------------------------------------------------------------------
(* Calendar dates (datetime) and datetime.strptime                         *)

NoDate == 0

IsLeap(y) == (y % 4 = 0 /\ y % 100 # 0) \/ y % 400 = 0

DaysInMonth(y, m) ==
    IF m = 2 THEN (IF IsLeap(y) THEN 29 ELSE 28)
    ELSE IF m \in {4, 6, 9, 11} THEN 30 ELSE 31

RECURSIVE DaysBeforeMonth(_, _)
DaysBeforeMonth(y, m) ==
    IF m <= 1 THEN 0 ELSE DaysBeforeMonth(y, m - 1) + DaysInMonth(y, m - 1)

\* datetime(y, m, d).toordinal(); NoDate where datetime() raises ValueError
Ordinal(y, m, d) ==
    IF y >= 1 /\ m \in 1..12 /\ d >= 1 /\ d <= DaysInMonth(y, m)
    THEN (y - 1) * 365 + ((y - 1) \div 4) - ((y - 1) \div 100) + ((y - 1) \div 400)
         + DaysBeforeMonth(y, m) + d
    ELSE NoDate

MonthAbbr == <<"jan", "feb", "mar", "apr", "may", "jun",
               "jul", "aug", "sep", "oct", "nov", "dec">>
MonthFull == <<"january", "february", "march", "april", "may", "june", "july",
               "august", "september", "october", "november", "december">>

StrpFail == [ok |-> FALSE, d |-> 0, m |-> 0, y |-> 0]

\* the month whose name (of the table) the text has at i, case-insensitively; 0 if none
NameAt(s, i, name) ==
    i >= 1 /\ i + Len(name) - 1 <= Len(s) /\ Lower(SubSeq(s, i, i + Len(name) - 1)) = name

MonthAt(s, i, names) ==
    IF \E k \in 1..12 : NameAt(s, i, names[k])
    THEN CHOOSE k \in 1..12 : NameAt(s, i, names[k])
    ELSE 0

\* the number the two characters, or the one character, at i spell; -1 when they are
\* not digits
TwoDigitsAt(s, i) ==
    IF i + 1 <= Len(s) /\ IsDigits(SubSeq(s, i, i + 1)) THEN IntOf(SubSeq(s, i, i + 1)) ELSE -1

OneDigitAt(s, i) == IF i <= Len(s) /\ IsDigit(Ch(s, i)) THEN IntOf(Ch(s, i)) ELSE -1

\* _strptime: the format is compiled to a regular expression that must match the
\* whole string; %d and %m take two digits when they can and one otherwise, %Y four
\* digits, %y two, white space in the format is \s+, anything else is itself.
\* StrpDirective is the directive dv at j, given the numbers and month names at i.
RECURSIVE StrpAt(_, _, _, _, _)
RECURSIVE StrpDirective(_, _, _, _, _, _, _, _, _, _)
StrpDirective(s, i, fmt, j, acc, dv, two, one, abbr, full) ==
    IF dv = "d" THEN
        LET r2 == IF two \in 1..31
                  THEN StrpAt(s, i + 2, fmt, j + 2, [acc EXCEPT !.d = two]) ELSE StrpFail
            r1 == IF one \in 1..9
                  THEN StrpAt(s, i + 1, fmt, j + 2, [acc EXCEPT !.d = one]) ELSE StrpFail
            sp == IF i + 1 <= Len(s) /\ Ch(s, i) = " " /\ OneDigitAt(s, i + 1) \in 1..9
                  THEN StrpAt(s, i + 2, fmt, j + 2, [acc EXCEPT !.d = OneDigitAt(s, i + 1)])
                  ELSE StrpFail
        IN IF r2.ok THEN r2 ELSE IF r1.ok THEN r1 ELSE sp
    ELSE IF dv = "m" THEN
        LET r2 == IF two \in 1..12
                  THEN StrpAt(s, i + 2, fmt, j + 2, [acc EXCEPT !.m = two]) ELSE StrpFail
            r1 == IF one \in 1..9
                  THEN StrpAt(s, i + 1, fmt, j + 2, [acc EXCEPT !.m = one]) ELSE StrpFail
        IN IF r2.ok THEN r2 ELSE r1
    ELSE IF dv = "Y" THEN
        IF i + 3 <= Len(s) /\ IsDigits(SubSeq(s, i, i + 3))
        THEN StrpAt(s, i + 4, fmt, j + 2, [acc EXCEPT !.y = IntOf(SubSeq(s, i, i + 3))])
        ELSE StrpFail
    ELSE IF dv = "y" THEN
        IF two >= 0
        THEN StrpAt(s, i + 2, fmt, j + 2,
                    [acc EXCEPT !.y = IF two <= 68 THEN 2000 + two ELSE 1900 + two])
        ELSE StrpFail
    ELSE IF dv = "b" THEN
        IF abbr # 0 THEN StrpAt(s, i + 3, fmt, j + 2, [acc EXCEPT !.m = abbr]) ELSE StrpFail
    ELSE IF dv = "B" THEN
        IF full # 0
        THEN StrpAt(s, i + Len(MonthFull[full]), fmt, j + 2, [acc EXCEPT !.m = full])
        ELSE StrpFail
    ELSE StrpFail

StrpAt(s, i, fmt, j, acc) ==
    IF j > Len(fmt) THEN (IF i > Len(s) THEN [acc EXCEPT !.ok = TRUE] ELSE StrpFail)
    ELSE IF Ch(fmt, j) = "%"
    THEN StrpDirective(s, i, fmt, j, acc, Ch(fmt, j + 1), TwoDigitsAt(s, i), OneDigitAt(s, i),
                       MonthAt(s, i, MonthAbbr), MonthAt(s, i, MonthFull))
    ELSE IF IsSpace(Ch(fmt, j))
    THEN (IF i <= Len(s) /\ IsSpace(Ch(s, i))
          THEN StrpAt(s, SpaceRunEnd(s, i) + 1, fmt, SpaceRunEnd(fmt, j) + 1, acc)
          ELSE StrpFail)
    ELSE IF i <= Len(s) /\ Ch(s, i) = Ch(fmt, j) THEN StrpAt(s, i + 1, fmt, j + 1, acc)
    ELSE StrpFail

\* the date of the fields strptime read; NoDate where datetime() raises ValueError
DateOf(r) == IF r.ok THEN Ordinal(r.y, r.m, r.d) ELSE NoDate

\* datetime.strptime(s, fmt) as a day ordinal; NoDate where it raises ValueError
Strptime(s, fmt) ==
    DateOf(StrpAt(s, 1, fmt, 1, [ok |-> FALSE, d |-> 1, m |-> 1, y |-> 1900]))

\* a if it is a date, else b
Else(a, b) == IF a # NoDate THEN a ELSE b

\* the first format of the list that parses s (the try/except loops of _parse_date)
RECURSIVE FirstFormat(_, _, _)
FirstFormat(s, fmts, k) ==
    IF k > Len(fmts) THEN NoDate
    ELSE Else(Strptime(s, fmts[k]), FirstFormat(s, fmts, k + 1))

-----------------------------------------------------------------------------
(* float() and the amount tokens                                           *)

FloatFail == [ok |-> FALSE, v |-> 0]

\* float(s) in hundredths: white space around, a sign, digits, a point, digits, with
\* at least one digit; anything else raises ValueError (ok = FALSE).  Digits beyond
\* the second decimal are cut: no text of the pools below has one that is not 0.
\* The digits before the point are s[b..e1], the digits after it s[f..e2].
FloatParts(s, b, e1, dot, f, e2) ==
    IF e2 = Len(s) /\ (e1 >= b \/ (dot /\ e2 >= f))
    THEN [ok |-> TRUE,
          v |-> (IF Ch(s, 1) = "-" THEN -1 ELSE 1)
                * ((IF e1 >= b THEN IntOf(SubSeq(s, b, e1)) ELSE 0) * 100
                   + (IF ~dot \/ e2 < f THEN 0
                      ELSE IF e2 = f THEN 10 * IntOf(Ch(s, f))
                      ELSE IntOf(SubSeq(s, f, f + 1))))]
    ELSE FloatFail

FloatFrom(s, b, e1, dot) ==
    FloatParts(s, b, e1, dot, IF dot THEN e1 + 2 ELSE e1 + 1,
               IF dot THEN DigitRunEnd(s, e1 + 2) ELSE e1)

FloatSigned(s, b) ==
    FloatFrom(s, b, DigitRunEnd(s, b), StartsAt(s, DigitRunEnd(s, b) + 1, "."))

FloatStripped(s) == FloatSigned(s, IF Len(s) > 0 /\ Ch(s, 1) \in {"-", "+"} THEN 2 ELSE 1)

FloatOf(s0) == FloatStripped(Strip(s0))

\* float() of a value of a JSON document: as above, and "nan" (the literal NaN, or
\* the string) is the float that is no number.  The amounts are integers, which
\* have no such value: it is written NotANumber, and each comparison the code makes
\* with it is spelled out where it is made (every one of them is false).
NotANumber == -1
IsNanText(s) == Lower(Strip(s)) \in {"nan", "+nan", "-nan"}
JsonFloat(s) == IF IsNanText(s) THEN [ok |-> TRUE, v |-> NotANumber] ELSE FloatOf(s)

\* amount <= 0
NotPositive(amount) == amount # NotANumber /\ amount <= 0

\* the end of a match of [\d,]+\.?\d* that starts at i; 0 when there is none
NumberEnd(s, i) ==
    LET e1 == DigitCommaRunEnd(s, i) IN
    IF e1 < i THEN 0
    ELSE IF e1 + 1 <= Len(s) /\ Ch(s, e1 + 1) = "." THEN DigitRunEnd(s, e1 + 2)
    ELSE e1

\* the end of a match of [\d,]+\.\d{2} that starts at i; 0 when there is none
DecimalEnd(s, i) ==
    LET e1 == DigitCommaRunEnd(s, i) IN
    IF e1 >= i /\ e1 + 3 <= Len(s) /\ Ch(s, e1 + 1) = "."
       /\ IsDigit(Ch(s, e1 + 2)) /\ IsDigit(Ch(s, e1 + 3))
    THEN e1 + 3 ELSE 0

\* the end of a match of \d{1,3}(?:,\d{3})*(?:\.\d{2})? that starts at i; 0 when none
RECURSIVE GroupsEnd(_, _)
GroupsEnd(s, e) ==
    IF e + 4 <= Len(s) /\ Ch(s, e + 1) = "," /\ IsDigits(SubSeq(s, e + 2, e + 4))
    THEN GroupsEnd(s, e + 4) ELSE e

\* e with the (?:\.\d{2})? that follows it
CentsEnd(s, e) ==
    IF e + 3 <= Len(s) /\ Ch(s, e + 1) = "." /\ IsDigit(Ch(s, e + 2)) /\ IsDigit(Ch(s, e + 3))
    THEN e + 3 ELSE e

\* the lesser of two numbers
Least(a, b) == IF a < b THEN a ELSE b

GroupedEnd(s, i) ==
    IF DigitRunEnd(s, i) < i THEN 0
    ELSE CentsEnd(s, GroupsEnd(s, Least(DigitRunEnd(s, i), i + 2)))

ShapeEnd(s, i, shape) ==
    IF i > Len(s) THEN 0
    ELSE IF shape = "decimal" THEN DecimalEnd(s, i)
    ELSE IF shape = "grouped" THEN GroupedEnd(s, i)
    ELSE NumberEnd(s, i)

PrefixAt(s, i, prefix, ignorecase) ==
    i + Len(prefix) - 1 <= Len(s)
    /\ (IF ignorecase THEN Lower(SubSeq(s, i, i + Len(prefix) - 1)) = Lower(prefix)
        ELSE SubSeq(s, i, i + Len(prefix) - 1) = prefix)

\* One regular expression of the amount lists, tried at position i: one of the
\* prefixes (in the order the expression tries them), white space (\s+ when
\* needSpace, \s* otherwise), then the captured number of the given shape.
\* [from, to] of the captured group; to = 0 when the expression does not match at i.
\* AmountAfter is the n-th prefix, that ends before j, with the number at k.
RECURSIVE AmountAt(_, _, _, _)
RECURSIVE AmountAfter(_, _, _, _, _, _, _)
AmountAfter(s, i, pat, n, j, k, e) ==
    IF PrefixAt(s, i, pat.prefixes[n], pat.ignorecase) /\ (~pat.needSpace \/ k > j) /\ e # 0
    THEN [from |-> k, to |-> e]
    ELSE AmountAt(s, i, pat, n + 1)

AmountAt(s, i, pat, n) ==
    IF n > Len(pat.prefixes) THEN [from |-> 0, to |-> 0]
    ELSE AmountAfter(s, i, pat, n, i + Len(pat.prefixes[n]),
                     SpaceRunEnd(s, i + Len(pat.prefixes[n])) + 1,
                     ShapeEnd(s, SpaceRunEnd(s, i + Len(pat.prefixes[n])) + 1, pat.shape))

\* re.findall of such an expression: the captured groups, left to right; each match
\* is the leftmost one at or after the end of the one before (M is where it matches)
RECURSIVE FindAllAmounts(_, _, _)
RECURSIVE FindAllAfter(_, _, _)
FindAllAfter(s, pat, m) == <<SubSeq(s, m.from, m.to)>> \o FindAllAmounts(s, m.to + 1, pat)

FindAllAmong(s, pat, M) ==
    IF M = {} THEN <<>> ELSE FindAllAfter(s, pat, AmountAt(s, MinOf(M), pat, 1))

FindAllAmounts(s, i, pat) ==
    FindAllAmong(s, pat, {k \in i..Len(s) : AmountAt(s, k, pat, 1).to # 0})

\* the loop "amount = float(match.replace(',', '')); if amount > 0: append" over the
\* captured groups; a group float() rejects is skipped
Positive(fl) == IF fl.ok /\ fl.v > 0 THEN <<fl.v>> ELSE <<>>

RECURSIVE PositiveAmounts(_, _)
PositiveAmounts(groups, k) ==
    IF k > Len(groups) THEN <<>>
    ELSE Positive(FloatOf(RemoveAll(groups[k], ","))) \o PositiveAmounts(groups, k + 1)

-----------------------------------------------------------------------------
(* The date tokens of a line                                               *)

\* \d{a}[/-]\d{b}[/-]\d{c} at position i, for the widths w = <<a, b, c>>
ShapeAt(s, i, w) ==
    LET p2 == i + w[1] + 1
        p3 == p2 + w[2] + 1
    IN /\ p3 + w[3] - 1 <= Len(s)
       /\ IsDigits(SubSeq(s, i, i + w[1] - 1))
       /\ Ch(s, p2 - 1) \in {"/", "-"}
       /\ IsDigits(SubSeq(s, p2, p2 + w[2] - 1))
       /\ Ch(s, p3 - 1) \in {"/", "-"}
       /\ IsDigits(SubSeq(s, p3, p3 + w[3] - 1))

\* re.search of that pattern: the matched text, "" when it matches nowhere
SearchShape(s, i, w) ==
    LET M == {k \in i..Len(s) : ShapeAt(s, k, w)} IN
    IF M = {} THEN "" ELSE SubSeq(s, MinOf(M), MinOf(M) + w[1] + w[2] + w[3] + 1)

\* \d{1,2}\s+(?:Jan|...|Dec)\s+\d{4} at position i: the end of the match, 0 if none.
\* The names are matched as written unless ignorecase (re.IGNORECASE).
MonthDateYear(s, e2, ignorecase, k, e3) ==
    IF /\ k # 0
       /\ (ignorecase \/ SubSeq(s, e2 + 1, e2 + 3)
                         = UpperCh(Ch(MonthAbbr[k], 1)) \o SubSeq(MonthAbbr[k], 2, 3))
       /\ e3 > e2 + 3
       /\ e3 + 4 <= Len(s)
       /\ IsDigits(SubSeq(s, e3 + 1, e3 + 4))
    THEN e3 + 4 ELSE 0

MonthDateName(s, e1, ignorecase, e2) ==
    IF e2 > e1 /\ e2 + 3 <= Len(s)
    THEN MonthDateYear(s, e2, ignorecase, MonthAt(s, e2 + 1, MonthAbbr), SpaceRunEnd(s, e2 + 4))
    ELSE 0

MonthDateDay(s, i, ignorecase, e1) ==
    IF i <= Len(s) /\ e1 >= i THEN MonthDateName(s, e1, ignorecase, SpaceRunEnd(s, e1 + 1))
    ELSE 0

MonthDateAt(s, i, ignorecase) ==
    MonthDateDay(s, i, ignorecase, Least(DigitRunEnd(s, i), i + 1))

\* re.search of it: [from, to] of the match, to = 0 when it matches nowhere
MonthDateAmong(s, ignorecase, M) ==
    IF M = {} THEN [from |-> 0, to |-> 0]
    ELSE [from |-> MinOf(M), to |-> MonthDateAt(s, MinOf(M), ignorecase)]

SearchMonthDate(s, i, ignorecase) ==
    MonthDateAmong(s, ignorecase, {k \in i..Len(s) : MonthDateAt(s, k, ignorecase) # 0})

-----------------------------------------------------------------------------
(* Transactions                                                            *)

\* A transaction, as far as the properties below read it: the date (an ordinal), the
\* amount (hundredths), the type and the 'bank' key (NoBank when the dict has none).
\* src is bookkeeping of the model, not a key of the dict: the code path that built
\* the record.
NoBank == "(no bank key)"

NoCategory == "(no category key)"

Txn(date, amount, type, bank, src, description, category) ==
    [date |-> date, amount |-> amount, type |-> type, bank |-> bank, src |-> src,
     description |-> description, category |-> category]

-----------------------------------------------------------------------------
(* Descriptions and categories                                             *)

\* s without its characters of the set drop: re.sub(r'[-+]', '', s)
RECURSIVE WithoutChars(_, _, _, _)
WithoutChars(s, lo, hi, drop) ==
    IF lo > hi THEN ""
    ELSE IF lo = hi THEN (IF Ch(s, lo) \in drop THEN "" ELSE Ch(s, lo))
    ELSE WithoutChars(s, lo, (lo + hi) \div 2, drop)
         \o WithoutChars(s, (lo + hi) \div 2 + 1, hi, drop)

\* the place of the last character of s that is not white space, 0 if there is none
LastInk(s) ==
    IF \A k \in 1..Len(s) : IsSpace(Ch(s, k)) THEN 0
    ELSE CHOOSE k \in 1..Len(s) :
             ~IsSpace(Ch(s, k)) /\ \A j \in (k + 1)..Len(s) : IsSpace(Ch(s, j))

\* ' '.join(s.split()): a run of white space inside s becomes one space, the runs at
\* its two ends go
RECURSIVE SplitJoinRange(_, _, _, _)
SplitJoinRange(s, lo, hi, last) ==
    IF lo > hi THEN ""
    ELSE IF lo = hi THEN
        IF ~IsSpace(Ch(s, lo)) THEN Ch(s, lo)
        ELSE IF lo > 1 /\ ~IsSpace(Ch(s, lo - 1)) /\ lo < last THEN " "
        ELSE ""
    ELSE SplitJoinRange(s, lo, (lo + hi) \div 2, last)
         \o SplitJoinRange(s, (lo + hi) \div 2 + 1, hi, last)

SplitJoin(s) == SplitJoinRange(s, 1, Len(s), LastInk(s))

\* s[:200]
MaxDescription == 200
Truncated(s) == IF Len(s) > MaxDescription THEN SubSeq(s, 1, MaxDescription) ELSE s

\* str.title() of a word
Title(word) == IF word = "" THEN "" ELSE UpperCh(Ch(word, 1)) \o Lower(SubSeq(word, 2, Len(word)))

\* re.sub(expression, '', s) for an expression of the amount lists: s from i on
\* without the matches, each the leftmost one after the one before. M is where the
\* expression matches; a match runs from its prefix to the end of its number.
RECURSIVE RemoveAmounts(_, _, _)
RECURSIVE RemoveAmountsAmong(_, _, _, _)
RemoveAmountsAmong(s, i, pat, M) ==
    IF M = {} THEN SubSeq(s, i, Len(s))
    ELSE SubSeq(s, i, MinOf(M) - 1) \o RemoveAmounts(s, AmountAt(s, MinOf(M), pat, 1).to + 1, pat)

RemoveAmounts(s, i, pat) ==
    RemoveAmountsAmong(s, i, pat, {k \in i..Len(s) : AmountAt(s, k, pat, 1).to # 0})

\* re.sub(mon_pattern, '', s, flags=re.IGNORECASE)
RECURSIVE RemoveMonthDates(_, _)
RECURSIVE RemoveMonthDatesAfter(_, _, _)
RemoveMonthDatesAfter(s, i, m) ==
    IF m.to = 0 THEN SubSeq(s, i, Len(s))
    ELSE SubSeq(s, i, m.from - 1) \o RemoveMonthDates(s, m.to + 1)

RemoveMonthDates(s, i) == RemoveMonthDatesAfter(s, i, SearchMonthDate(s, i, TRUE))

\* re.sub(r'[-+\s]+$', '', s) and the like: s without the run of characters of the
\* set at its end
WithoutTail(s, drop) ==
    IF \A k \in 1..Len(s) : Ch(s, k) \in drop THEN ""
    ELSE SubSeq(s, 1, CHOOSE k \in 1..Len(s) :
                          Ch(s, k) \notin drop /\ \A j \in (k + 1)..Len(s) : Ch(s, j) \in drop)

\* a chain of "if any(word in text for word in [...]): return category": the category
\* of the first rule one of whose words the text contains
RECURSIVE FirstRule(_, _, _, _)
FirstRule(text, rules, k, default) ==
    IF k > Len(rules) THEN default
    ELSE IF ContainsAny(text, rules[k].words) THEN rules[k].category
    ELSE FirstRule(text, rules, k + 1, default)

-----------------------------------------------------------------------------
(* EnhancedPDFParser: the generic line parser                              *)

Enh_date_patterns == << <<2, 2, 4>>, <<2, 2, 2>>, <<4, 2, 2>> >>

Enh_amount_patterns ==
    << [prefixes |-> <<Rupee, "">>, ignorecase |-> FALSE, needSpace |-> FALSE,
        shape |-> "decimal"],
       [prefixes |-> <<"Rs.", "Rs">>, ignorecase |-> FALSE, needSpace |-> FALSE,
        shape |-> "decimal"],
       [prefixes |-> <<"INR">>, ignorecase |-> FALSE, needSpace |-> FALSE,
        shape |-> "decimal"] >>

Inr_pattern ==
    [prefixes |-> <<"INR">>, ignorecase |-> TRUE, needSpace |-> TRUE, shape |-> "number"]

Enh_credit_keywords ==
    {"credit", "deposit", "salary", "transfer credit", "neft cr",
     "imps cr", "rtgs cr", "upi cr", "refund", "interest credited"}

Enh_debit_keywords ==
    {"debit", "withdrawal", "payment", "transfer debit", "neft dr",
     "imps dr", "rtgs dr", "upi", "atm", "pos", "emi", "charges"}

Enh_date_formats ==
    <<"%d/%m/%Y", "%d-%m-%Y", "%d/%m/%y", "%d-%m-%y",
      "%Y/%m/%d", "%Y-%m-%d", "%Y/%m/%d", "%Y-%m-%d",
      "%d %b %Y", "%d %B %Y">>

\* _parse_date: NoDate where it raises ValueError
Enh_parse_date(date_str) == FirstFormat(date_str, Enh_date_formats, 1)

\* the text of a match [from, to], "" when there is none
Matched(s, m) == IF m.to # 0 THEN SubSeq(s, m.from, m.to) ELSE ""

\* a if it is not empty, else b
OrElse(a, b) == IF a # "" THEN a ELSE b

\* the date_str of _extract_transaction_from_line: the first pattern of the list that
\* matches, else the "DD Mon YYYY" pattern; "" for None
RECURSIVE Enh_date_str_from(_, _)
Enh_date_str_from(line, k) ==
    IF k > Len(Enh_date_patterns) THEN Matched(line, SearchMonthDate(line, 1, TRUE))
    ELSE OrElse(SearchShape(line, 1, Enh_date_patterns[k]), Enh_date_str_from(line, k + 1))

Enh_date_str(line) == Enh_date_str_from(line, 1)

\* the amounts list: the INR amounts, and only when there is none the matches of the
\* three amount patterns, pattern after pattern
RECURSIVE Enh_pattern_amounts(_, _)
Enh_pattern_amounts(line, k) ==
    IF k > Len(Enh_amount_patterns) THEN <<>>
    ELSE PositiveAmounts(FindAllAmounts(line, 1, Enh_amount_patterns[k]), 1)
         \o Enh_pattern_amounts(line, k + 1)

\* the list a if it is not empty, else b
IfNone(a, b) == IF a # <<>> THEN a ELSE b

Enh_amounts(line) ==
    IfNone(PositiveAmounts(FindAllAmounts(line, 1, Inr_pattern), 1),
           Enh_pattern_amounts(line, 1))

\* re.search(r'-\s*INR', line) and re.search(r'\+\s*INR', line)
SignBeforeInr(line, sign) ==
    \E i \in 1..Len(line) :
        Ch(line, i) = sign /\ StartsAt(line, SpaceRunEnd(line, i + 1) + 1, "INR")

Enh_is_credit(line, is_credit, is_debit) ==
    IF ~is_credit /\ ~is_debit
    THEN ~SignBeforeInr(line, "-") /\ SignBeforeInr(line, "+")
    ELSE is_credit

Enh_type(line) ==
    IF Enh_is_credit(line, ContainsAny(Lower(line), Enh_credit_keywords),
                     ContainsAny(Lower(line), Enh_debit_keywords))
    THEN "credit" ELSE "debit"

\* _categorize_transaction of EnhancedPDFParser
Enh_categories ==
    << [category |-> "salary", words |-> {"salary", "pay", "income"}],
       [category |-> "cash_withdrawal", words |-> {"atm", "cash", "withdrawal"}],
       [category |-> "groceries",
        words |-> {"grocery", "supermarket", "food", "swiggy", "zomato"}],
       [category |-> "fuel", words |-> {"fuel", "petrol", "gas", "diesel"}],
       [category |-> "food_dining", words |-> {"restaurant", "dining", "cafe", "hotel"}],
       [category |-> "utilities", words |-> {"electricity", "water", "utility", "bill", "rent"}],
       [category |-> "medical", words |-> {"medical", "hospital", "pharmacy", "doctor"}],
       [category |-> "shopping", words |-> {"shopping", "mall", "store", "amazon", "flipkart"}],
       [category |-> "transfer", words |-> {"transfer", "neft", "imps", "rtgs", "upi"}],
       [category |-> "loan", words |-> {"emi", "loan", "interest"}] >>

Enh_categorize_transaction(description) ==
    FirstRule(Lower(description), Enh_categories, 1, "others")

\* the description of _extract_transaction_from_line: the line without its dates and
\* amounts, signs and surplus white space. The three numeric date patterns match
\* nowhere in a line that gets this far, so their re.sub leaves the line as it is.
RECURSIVE Enh_without_amounts(_, _)
Enh_without_amounts(s, k) ==
    IF k > Len(Enh_amount_patterns) THEN s
    ELSE Enh_without_amounts(RemoveAmounts(s, 1, Enh_amount_patterns[k]), k + 1)

Enh_without_signs(s) == SplitJoin(WithoutChars(s, 1, Len(s), {"-", "+"}))

Enh_label(description, txn_type) ==
    IF Len(description) < 3 THEN Title(txn_type) \o " Transaction" ELSE description

Enh_description(line, txn_type) ==
    Enh_label(Enh_without_signs(
                  RemoveAmounts(Enh_without_amounts(RemoveMonthDates(line, 1), 1), 1,
                                Inr_pattern)),
              txn_type)

\* the dict returned: the category is that of the whole description, the
\* description is cut to 200 characters
Enh_transaction(date_obj, amount, txn_type, description) ==
    Txn(date_obj, amount, txn_type, "Indian Bank", "generic", Truncated(description),
        Enh_categorize_transaction(description))

\* mon_pattern is assigned only under "if not date_str": it is unbound when one of
\* the three numeric patterns found the date
Enh_mon_pattern_bound(line) ==
    \A k \in 1..Len(Enh_date_patterns) : SearchShape(line, 1, Enh_date_patterns[k]) = ""

\* What a call returns or raises: err = TRUE when it raises, else the list returned.
Returned(txns) == [err |-> FALSE, txns |-> txns]
Raised == [err |-> TRUE, txns |-> <<>>]

\* _extract_transaction_from_line: <<>> for None, else the one transaction; it raises
\* UnboundLocalError at re.sub(mon_pattern, ...) when mon_pattern is unbound
Enh_line_transaction(line, date_str, date_obj, amounts) ==
    IF date_str = "" \/ date_obj = NoDate \/ amounts = <<>> THEN Returned(<<>>)
    ELSE IF ~Enh_mon_pattern_bound(line) THEN Raised
    ELSE Returned(<<Enh_transaction(date_obj, amounts[1], Enh_type(line),
                                    Enh_description(line, Enh_type(line)))>>)

Enh_line_dated(line, date_str) ==
    Enh_line_transaction(line, date_str, Enh_parse_date(date_str), Enh_amounts(line))

Enh_extract_transaction_from_line(line) == Enh_line_dated(line, Enh_date_str(line))

\* the body of the loop of _parse_transactions_from_text
Enh_line(line) ==
    IF Len(line) < 20 THEN Returned(<<>>) ELSE Enh_extract_transaction_from_line(line)

\* _parse_transactions_from_text: the loop has no try, so a line that raises ends it
RECURSIVE Enh_parse_lines(_, _, _)
RECURSIVE Enh_after_line(_, _, _, _)
Enh_after_line(lines, k, acc, r) ==
    IF r.err THEN Raised ELSE Enh_parse_lines(lines, k + 1, acc \o r.txns)

Enh_parse_lines(lines, k, acc) ==
    IF k > Len(lines) THEN Returned(acc)
    ELSE Enh_after_line(lines, k, acc, Enh_line(Strip(lines[k])))

\* text.split('\n') is the text itself: a text is kept as the sequence of its lines
Enh_parse_transactions_from_text(text) == Enh_parse_lines(text, 1, <<>>)

-----------------------------------------------------------------------------
(* IndianBankParser                                                        *)

\* re.finditer(r'INR\s+([\d,]+\.?\d*)', line): as Inr_pattern, but as written
Ind_inr_pattern ==
    [prefixes |-> <<"INR">>, ignorecase |-> FALSE, needSpace |-> TRUE, shape |-> "number"]

Ind_debit_words == {"upi", "payment", "debit", "withdrawal"}

\* the type and the amount _parse_transaction_line takes from the amounts of a line
\* with at least two of them (every amount of the list is > 0)
Ind_type_amount(line, amounts) ==
    IF Len(amounts) = 3 THEN
        LET debit_amount == amounts[1]
            credit_amount == amounts[2]
        IN IF debit_amount > 0 /\ credit_amount = 0
           THEN [is_credit |-> FALSE, amount |-> debit_amount]
           ELSE IF credit_amount > 0 /\ debit_amount = 0
           THEN [is_credit |-> TRUE, amount |-> credit_amount]
           ELSE [is_credit |-> credit_amount > 0,
                 amount |-> IF debit_amount > 0 THEN debit_amount ELSE credit_amount]
    ELSE IF Len(amounts) = 2 THEN
        LET before_inr == SubSeq(line, 1, Find(line, "INR") - 1) IN
        [is_credit |-> IF Contains(before_inr, "-") THEN FALSE
                       ELSE IF Contains(before_inr, "+") THEN TRUE
                       ELSE ~ContainsAny(Lower(line), Ind_debit_words),
         amount |-> amounts[1]]
    ELSE [is_credit |-> FALSE, amount |-> amounts[1]]

\* _categorize of IndianBankParser
Ind_upi_categories ==
    << [category |-> "food_dining", words |-> {"swiggy", "zomato", "food"}],
       [category |-> "shopping", words |-> {"amazon", "flipkart", "shopping"}] >>

Ind_categories ==
    << [category |-> "salary", words |-> {"salary", "pay", "income"}],
       [category |-> "cash_withdrawal", words |-> {"atm", "cash", "withdrawal"}],
       [category |-> "groceries", words |-> {"grocery", "supermarket"}],
       [category |-> "fuel", words |-> {"fuel", "petrol", "gas"}],
       [category |-> "utilities", words |-> {"electricity", "water", "utility", "bill", "rent"}],
       [category |-> "medical", words |-> {"medical", "hospital", "pharmacy"}],
       [category |-> "transfer", words |-> {"transfer", "neft", "imps", "rtgs"}] >>

Ind_categorize(description) ==
    IF Contains(Lower(description), "upi")
    THEN FirstRule(Lower(description), Ind_upi_categories, 1, "transfer")
    ELSE FirstRule(Lower(description), Ind_categories, 1, "others")

\* the description: what stands between the date and the first INR after it, without
\* the signs and white space at its end
Ind_between(line, desc_start, first_inr_pos) ==
    IF first_inr_pos > desc_start
    THEN Strip(SubSeq(line, desc_start + 1, first_inr_pos))
    ELSE "Transaction"

Ind_label(description) ==
    IF Len(description) < 3 THEN "Bank Transaction" ELSE description

Ind_description(line, date_match) ==
    Ind_label(Strip(WithoutTail(Ind_between(line, date_match.to,
                                            FindFrom(line, date_match.to + 1, "INR") - 1),
                                {"-", "+", " ", "\t", "\n", "\r"})))

\* _parse_transaction_line: <<>> for None, else the one transaction
Ind_date(line, date_match) ==
    IF date_match.to = 0 THEN NoDate ELSE Strptime(Matched(line, date_match), "%d %b %Y")

Ind_transaction(date_obj, ta, description) ==
    <<Txn(date_obj, ta.amount, IF ta.is_credit THEN "credit" ELSE "debit",
          "Indian Bank", "indian", Truncated(description), Ind_categorize(description))>>

Ind_line_transaction(line, date_match, date_obj, amounts) ==
    IF date_obj = NoDate \/ Len(amounts) <= 1 THEN <<>>
    ELSE Ind_transaction(date_obj, Ind_type_amount(line, amounts),
                         Ind_description(line, date_match))

Ind_line_dated(line, date_match) ==
    Ind_line_transaction(line, date_match, Ind_date(line, date_match),
                         PositiveAmounts(FindAllAmounts(line, 1, Ind_inr_pattern), 1))

Ind_parse_transaction_line(line) == Ind_line_dated(line, SearchMonthDate(line, 1, FALSE))

\* a marker test that keeps the case of the line
Ind_starts_cased(line) == Contains(line, "ACCOUNT ACTIVITY")

\* 'ACCOUNT ACTIVITY' in line.upper()
Ind_starts(line) == Contains(Upper(line), "ACCOUNT ACTIVITY")

\* parse_text: the loop over the lines, with its in_transactions flag
RECURSIVE Ind_parse_lines(_, _, _)
Ind_parse_lines(lines, k, in_transactions) ==
    IF k > Len(lines) THEN <<>>
    ELSE LET line == Strip(lines[k]) IN
         IF Ind_starts(line) THEN Ind_parse_lines(lines, k + 1, TRUE)
         ELSE IF ~in_transactions \/ line = "" THEN Ind_parse_lines(lines, k + 1, in_transactions)
         ELSE IF Contains(line, "Date") /\ Contains(line, "Transaction Details")
         THEN Ind_parse_lines(lines, k + 1, in_transactions)
         ELSE Ind_parse_transaction_line(line) \o Ind_parse_lines(lines, k + 1, in_transactions)

Ind_parse_text(text) == Ind_parse_lines(text, 1, FALSE)

-----------------------------------------------------------------------------
(* Numeric date tokens with groups of variable width                       *)

\* the number of digits from position i on
RunLen(s, i) == DigitRunEnd(s, i) - i + 1

\* \d{lo1,hi1}[-/]\d{lo2,hi2}[-/]\d{lo3,hi3} tried at position i, between two \b when
\* bounded: the end of the match, 0 when there is none.  A group followed by a
\* separator has to take the whole run of digits; the last one takes what it can.
\* n1, n2 and run3 are the lengths of the three runs of digits.
NumDateThird(s, i, r, n1, n2, run3) ==
    LET p2 == i + n1 + 1
        p3 == p2 + n2 + 1
        n3 == IF r.bounded \/ run3 <= r.g3[2] THEN run3 ELSE r.g3[2]
    IN IF /\ i <= Len(s)
          /\ n1 >= r.g1[1] /\ n1 <= r.g1[2] /\ p2 - 1 <= Len(s) /\ Ch(s, p2 - 1) \in {"-", "/"}
          /\ n2 >= r.g2[1] /\ n2 <= r.g2[2] /\ p3 - 1 <= Len(s) /\ Ch(s, p3 - 1) \in {"-", "/"}
          /\ n3 >= r.g3[1] /\ n3 <= r.g3[2]
          /\ (r.bounded => /\ (i = 1 \/ ~IsWordCh(Ch(s, i - 1)))
                           /\ (p3 + n3 > Len(s) \/ ~IsWordCh(Ch(s, p3 + n3))))
       THEN p3 + n3 - 1 ELSE 0

NumDateSecond(s, i, r, n1, n2) == NumDateThird(s, i, r, n1, n2, RunLen(s, i + n1 + n2 + 2))

NumDateFirst(s, i, r, n1) == NumDateSecond(s, i, r, n1, RunLen(s, i + n1 + 1))

NumDateAt(s, i, r) == NumDateFirst(s, i, r, RunLen(s, i))

\* the position after the run of lower-case letters that starts at i
AfterLower(s, i) ==
    LET L == {j \in i..Len(s) : ~IsLowerCh(Ch(s, j))} IN
    IF L = {} THEN Len(s) + 1 ELSE MinOf(L)

\* (\d{1,2})[- ](Jan|...|Dec)[a-z]*[- ](\d{4}) tried at position i: the end, 0 if none;
\* the month name is at pm, it is month k, the second separator is at ps
TextDateYear(s, i, pm, k, ps) ==
    IF /\ i <= Len(s) /\ pm - i - 1 \in {1, 2} /\ pm - 1 <= Len(s)
       /\ Ch(s, pm - 1) \in {"-", " "}
       /\ k # 0
       /\ SubSeq(s, pm, pm + 2) = UpperCh(Ch(MonthAbbr[k], 1)) \o SubSeq(MonthAbbr[k], 2, 3)
       /\ ps + 4 <= Len(s) /\ Ch(s, ps) \in {"-", " "}
       /\ IsDigits(SubSeq(s, ps + 1, ps + 4))
    THEN ps + 4 ELSE 0

TextDateMonth(s, i, pm) ==
    TextDateYear(s, i, pm, IF pm + 2 <= Len(s) THEN MonthAt(s, pm, MonthAbbr) ELSE 0,
                 AfterLower(s, pm + 3))

TextDateAt(s, i) == TextDateMonth(s, i, i + RunLen(s, i) + 1)

\* re.search of one of the two: match.group(0), "" when there is no match
DateTokenAt(s, k, r) == IF r.text THEN TextDateAt(s, k) ELSE NumDateAt(s, k, r)

DateTokenAmong(s, r, M) ==
    IF M = {} THEN "" ELSE SubSeq(s, MinOf(M), DateTokenAt(s, MinOf(M), r))

SearchDateToken(s, r) == DateTokenAmong(s, r, {k \in 1..Len(s) : DateTokenAt(s, k, r) # 0})

-----------------------------------------------------------------------------
(* FreePDFParser                                                           *)

Free_date_patterns ==
    << [g1 |-> <<1, 2>>, g2 |-> <<1, 2>>, g3 |-> <<2, 4>>, bounded |-> FALSE, text |-> FALSE],
       [g1 |-> <<1, 2>>, g2 |-> <<1, 2>>, g3 |-> <<4, 4>>, bounded |-> FALSE, text |-> TRUE],
       [g1 |-> <<4, 4>>, g2 |-> <<1, 2>>, g3 |-> <<1, 2>>, bounded |-> FALSE, text |-> FALSE] >>

Free_bank_keywords ==
    {"UPI", "NEFT", "IMPS", "RTGS", "ATM", "CASH", "TRF", "TRANSFER",
     "CREDIT", "DEBIT", "BAL", "B/F", "BALANCE", "WITHDRAWAL", "DEPOSIT"}

Free_amount_pattern ==
    [prefixes |-> <<Rupee, "$", "">>, ignorecase |-> FALSE, needSpace |-> FALSE,
     shape |-> "grouped"]

Free_date_formats ==
    <<"%d/%m/%Y", "%d-%m-%Y", "%d.%m.%Y", "%d/%m/%y", "%d-%m-%y", "%d.%m.%y",
      "%Y/%m/%d", "%Y-%m-%d", "%d %b %Y", "%d-%b-%Y", "%b %d, %Y", "%B %d, %Y">>

Free_parse_date(date_str) == FirstFormat(Strip(date_str), Free_date_formats, 1)

\* _clean_text without its final strip(): a run of white space becomes one space, then
\* every character outside [\w\s.,₹$/-] becomes a space
RECURSIVE Free_clean_range(_, _, _)
Free_clean_range(s, lo, hi) ==
    IF lo > hi THEN ""
    ELSE IF lo = hi THEN
        LET c == Ch(s, lo) IN
        IF IsSpace(c) THEN (IF lo > 1 /\ IsSpace(Ch(s, lo - 1)) THEN "" ELSE " ")
        ELSE IF IsWordCh(c) \/ c \in {".", ",", Rupee, "$", "/", "-"} THEN c
        ELSE " "
    ELSE LET mid == (lo + hi) \div 2 IN
         Free_clean_range(s, lo, mid) \o Free_clean_range(s, mid + 1, hi)

Free_clean_text(text) == Strip(Free_clean_range(text, 1, Len(text)))

\* the loop over date_patterns: the first pattern that matches gives date_match
RECURSIVE Free_date_match(_, _)
Free_date_match(line, k) ==
    IF k > Len(Free_date_patterns) THEN ""
    ELSE OrElse(SearchDateToken(line, Free_date_patterns[k]), Free_date_match(line, k + 1))

\* _categorize_transaction of FreePDFParser
Free_categories ==
    << [category |-> "transfer", words |-> {"NEFT", "IMPS", "RTGS"}],
       [category |-> "cash_withdrawal", words |-> {"ATM", "CASH"}],
       [category |-> "groceries", words |-> {"GROCERY", "SUPERMARKET", "BIGBAZAAR"}],
       [category |-> "fuel", words |-> {"FUEL", "PETROL", "DIESEL", "BPCL", "HPCL", "IOCL"}],
       [category |-> "utilities", words |-> {"ELECTRICITY", "WATER", "GAS", "BILL", "RENT"}],
       [category |-> "medical", words |-> {"MEDICAL", "HOSPITAL", "PHARMACY"}],
       [category |-> "shopping", words |-> {"SHOPPING", "AMAZON", "FLIPKART", "MYNTRA"}] >>

Free_categorize_upper(desc_upper) ==
    IF ContainsAny(desc_upper, {"SALARY", "PAYMENT RECEIVED", "CREDIT"}) THEN "salary"
    ELSE IF Contains(desc_upper, "UPI")
    THEN (IF ContainsAny(desc_upper, {"FOOD", "SWIGGY", "ZOMATO", "EAT"})
          THEN "food_dining" ELSE "transfer")
    ELSE FirstRule(desc_upper, Free_categories, 1, "others")

Free_categorize_transaction(description) ==
    IF description = "" THEN "others" ELSE Free_categorize_upper(Upper(description))

\* the description: the line without its date, then "for amt in amounts: line =
\* line.replace(amt, '').strip()", or the label when nothing is left
RECURSIVE Free_without_amounts(_, _, _)
Free_without_amounts(rest, amounts, k) ==
    IF k > Len(amounts) THEN rest
    ELSE Free_without_amounts(Strip(RemoveAll(rest, amounts[k])), amounts, k + 1)

Free_description(rest, amounts) ==
    OrElse(Strip(Free_without_amounts(rest, amounts, 1)), "Bank Transaction")

\* _extract_transaction_line: <<>> for None, else the one transaction.  The steps:
\* the line without its date (rest) and the date parsed, the amounts, the last amount
Free_line_amount(rest, date, amount, description) ==
    IF ~amount.ok THEN <<>>
    ELSE <<Txn(date, amount.v,
               IF ContainsAny(Upper(rest), {"CREDIT", "CR", "DEPOSIT", "CREDITED"})
               THEN "credit" ELSE "debit",
               "Extracted by OCR", "free", Truncated(description),
               Free_categorize_transaction(description))>>

Free_line_amounts(rest, date, amounts) ==
    IF amounts = <<>> THEN <<>>
    ELSE Free_line_amount(rest, date, FloatOf(RemoveAll(amounts[Len(amounts)], ",")),
                          Free_description(rest, amounts))

Free_line_rest(rest, date) ==
    IF date = NoDate THEN <<>>
    ELSE Free_line_amounts(rest, date, FindAllAmounts(rest, 1, Free_amount_pattern))

Free_line_dated(line, date_match) ==
    IF date_match = "" THEN <<>>
    ELSE Free_line_rest(Strip(RemoveAll(line, date_match)), Free_parse_date(date_match))

Free_line_cleaned(line) ==
    IF ~ContainsAny(Upper(line), Free_bank_keywords) THEN <<>>
    ELSE Free_line_dated(line, Free_date_match(line, 1))

Free_extract_transaction_line(line0) ==
    IF Len(Strip(line0)) < 10 THEN <<>> ELSE Free_line_cleaned(Free_clean_text(line0))

RECURSIVE Free_parse_lines(_, _)
Free_parse_lines(lines, k) ==
    IF k > Len(lines) THEN <<>>
    ELSE Free_extract_transaction_line(lines[k]) \o Free_parse_lines(lines, k + 1)

-----------------------------------------------------------------------------
(* AdvancedBankStatementParser: bank detection and the regex pass          *)

\* '\n'.join(lines)
RECURSIVE JoinLines(_, _)
JoinLines(lines, k) ==
    IF k > Len(lines) THEN ""
    ELSE IF k = Len(lines) THEN lines[k]
    ELSE lines[k] \o "\n" \o JoinLines(lines, k + 1)

\* words[k], \s*, words[k+1], ... matched at position i
RECURSIVE WordsAt(_, _, _, _)
WordsAt(s, i, words, k) ==
    IF k > Len(words) THEN TRUE
    ELSE StartsAt(s, i, words[k])
         /\ WordsAt(s, SpaceRunEnd(s, i + Len(words[k])) + 1, words, k + 1)

SearchWords(s, words) == \E i \in 1..Len(s) : WordsAt(s, i, words, 1)

\* "for category, pattern in ...: if re.search(pattern, text): return category"
RECURSIVE FirstPattern(_, _, _, _)
FirstPattern(text, patterns, k, default) ==
    IF k > Len(patterns) THEN default
    ELSE IF ContainsAny(text, patterns[k].words)
            \/ \E w \in patterns[k].spaced : SearchWords(text, w)
    THEN patterns[k].category
    ELSE FirstPattern(text, patterns, k + 1, default)

None == "None"

\* BANK_PATTERNS, the 'name' expressions: the alternatives of each bank, in dict order
BANK_PATTERNS ==
    << [bank |-> "HDFC", name |-> << <<"HDFC", "BANK">>, <<"hdfc", "bank">> >>],
       [bank |-> "ICICI", name |-> << <<"ICICI", "BANK">>, <<"icici", "bank">> >>],
       [bank |-> "SBI", name |-> << <<"STATE", "BANK", "OF", "INDIA">>, <<"SBI">> >>],
       [bank |-> "AXIS", name |-> << <<"AXIS", "BANK">>, <<"axis", "bank">> >>],
       [bank |-> "KOTAK", name |-> << <<"KOTAK", "MAHINDRA", "BANK">>, <<"kotak">> >>] >>

\* detect_bank: re.search(name, text.upper(), re.IGNORECASE) for each bank in turn
RECURSIVE Adv_detect_from(_, _)
Adv_detect_from(text_upper, k) ==
    IF k > Len(BANK_PATTERNS) THEN None
    ELSE IF \E a \in 1..Len(BANK_PATTERNS[k].name) :
                SearchWords(text_upper, [w \in 1..Len(BANK_PATTERNS[k].name[a]) |->
                                            Upper(BANK_PATTERNS[k].name[a][w])])
    THEN BANK_PATTERNS[k].bank
    ELSE Adv_detect_from(text_upper, k + 1)

Adv_detect_bank(text) == Adv_detect_from(Upper(text), 1)

Adv_date_formats ==
    <<"%d/%m/%Y", "%d-%m-%Y", "%Y-%m-%d", "%d %b %Y", "%d-%b-%Y", "%d/%m/%y",
      "%m/%d/%Y", "%Y/%m/%d">>

Adv_parse_date(date_str) == FirstFormat(Strip(date_str), Adv_date_formats, 1)

\* \b\d{1,2}[/-]\d{1,2}[/-]\d{2,4}\b
Adv_date_pattern ==
    [g1 |-> <<1, 2>>, g2 |-> <<1, 2>>, g3 |-> <<2, 4>>, bounded |-> TRUE, text |-> FALSE]

\* [₹\s]*[\d,]+\.?\d*: what findall returns is cleaned of its ₹ and white space before
\* it is read, so only the number of each match is kept here
Adv_amount_pattern ==
    [prefixes |-> <<"">>, ignorecase |-> FALSE, needSpace |-> FALSE, shape |-> "number"]

\* the loop over amount_matches: clean, test isdigit() without the point, float()
Adv_clean_amount(amount) == Strip(RemoveAll(RemoveAll(amount, ","), Rupee))

Adv_amount(clean_amount, fl) ==
    IF IsDigits(RemoveAll(clean_amount, ".")) /\ fl.ok THEN <<fl.v>> ELSE <<>>

RECURSIVE Adv_amounts(_, _)
Adv_amounts(matches, k) ==
    IF k > Len(matches) THEN <<>>
    ELSE Adv_amount(Adv_clean_amount(matches[k]), FloatOf(Adv_clean_amount(matches[k])))
         \o Adv_amounts(matches, k + 1)

\* max() of a non-empty list of numbers
MaxOf(seq) == CHOOSE x \in {seq[k] : k \in 1..Len(seq)} : \A k \in 1..Len(seq) : seq[k] <= x

\* the body of the loop of _parse_text_with_regex: the transactions of one line
Adv_regex_transaction(line, bank, date_str, date_obj, amounts) ==
    IF line = "" \/ date_str = "" \/ date_obj = NoDate \/ amounts = <<>> THEN <<>>
    ELSE <<Txn(date_obj, MaxOf(amounts),
               IF ContainsAny(Upper(line), {"CREDIT", "DEPOSIT", "CR"})
               THEN "credit" ELSE "debit",
               bank, "regex", line, NoCategory)>>

Adv_regex_dated(line, bank, date_str) ==
    Adv_regex_transaction(line, bank, date_str, Adv_parse_date(date_str),
                          Adv_amounts(FindAllAmounts(line, 1, Adv_amount_pattern), 1))

Adv_regex_line(line0, bank) ==
    Adv_regex_dated(Strip(line0), bank, SearchDateToken(Strip(line0), Adv_date_pattern))

RECURSIVE Adv_regex_lines(_, _, _)
Adv_regex_lines(lines, k, bank) ==
    IF k > Len(lines) THEN <<>>
    ELSE Adv_regex_line(lines[k], bank) \o Adv_regex_lines(lines, k + 1, bank)

\* _parse_text_with_regex over text.split('\n')
Adv_parse_text_with_regex(lines, bank) == Adv_regex_lines(lines, 1, bank)

-----------------------------------------------------------------------------
(* Cells and row dictionaries                                              *)

\* A value of a table or of a DataFrame: a string, a number (s is its str()), NaN, or
\* None.  Str is str(value), Truthy is its truth value in "if value".
StrCell(s) == [t |-> "str", s |-> s]
NumCell(s) == [t |-> "num", s |-> s]
NaN == [t |-> "nan", s |-> "nan"]
NoneCell == [t |-> "none", s |-> "None"]

Str(c) == c.s

Truthy(c) ==
    IF c.t = "str" THEN c.s # ""
    ELSE IF c.t = "num" THEN FloatOf(c.s).v # 0
    ELSE c.t = "nan"

\* a dict built by assigning keys[k] = values[k] in turn: a key keeps the place of its
\* first assignment and the value of its last
RECURSIVE DictOf(_, _, _)
DictOf(keys, values, k) ==
    IF k > Len(keys) \/ k > Len(values) THEN <<>>
    ELSE LET n == IF Len(keys) < Len(values) THEN Len(keys) ELSE Len(values)
             same == {j \in 1..n : keys[j] = keys[k]}
             last == CHOOSE j \in same : \A i \in same : i <= j
         IN (IF \E j \in same : j < k THEN <<>>
             ELSE <<[key |-> keys[k], value |-> values[last]]>>)
            \o DictOf(keys, values, k + 1)

\* "for key, value in row_dict.items(): if pattern in key.lower() and value": the
\* entries the test accepts, in dict order
Adv_matching(row_dict, pattern) ==
    SelectSeq(row_dict, LAMBDA e : Contains(Lower(e.key), pattern) /\ Truthy(e.value))

\* the search for the date column: the first pattern whose first accepted entry parses
Adv_first_date(matching) ==
    IF matching = <<>> THEN NoDate ELSE Adv_parse_date(Str(matching[1].value))

RECURSIVE Adv_date_value(_, _, _)
Adv_date_value(row_dict, patterns, k) ==
    IF k > Len(patterns) THEN NoDate
    ELSE Else(Adv_first_date(Adv_matching(row_dict, patterns[k])),
              Adv_date_value(row_dict, patterns, k + 1))

\* the amount one accepted entry gives: ok = FALSE when the entry is passed over
Adv_amount_of(amount_str) ==
    IF IsDigits(RemoveAll(amount_str, ".")) THEN FloatOf(amount_str) ELSE FloatFail

Adv_entry_amount(e) ==
    Adv_amount_of(Strip(RemoveAll(RemoveAll(RemoveAll(Str(e.value), ","), Rupee), "-")))

Adv_first_amount(matching) ==
    IF matching = <<>> THEN FloatFail ELSE Adv_entry_amount(matching[1])

IfFails(a, b) == IF a.ok THEN a ELSE b

\* _extract_amount: the first entry, pattern by pattern, that gives an amount
RECURSIVE Adv_extract_amount(_, _, _)
Adv_extract_amount(row_dict, patterns, k) ==
    IF k > Len(patterns) THEN FloatFail
    ELSE IfFails(Adv_first_amount(SelectSeq(Adv_matching(row_dict, patterns[k]),
                                            LAMBDA e : Adv_entry_amount(e).ok)),
                 Adv_extract_amount(row_dict, patterns, k + 1))

\* the search for the description: the first pattern whose first accepted entry is
\* not empty once stripped
Adv_first_description(matching) ==
    IF matching = <<>> THEN "" ELSE Strip(Str(matching[1].value))

RECURSIVE Adv_description(_, _, _)
Adv_description(row_dict, patterns, k) ==
    IF k > Len(patterns) THEN ""
    ELSE OrElse(Adv_first_description(Adv_matching(row_dict, patterns[k])),
                Adv_description(row_dict, patterns, k + 1))

\* _extract_transaction_from_dict: <<>> for None, else the one transaction
Adv_dict_transaction(date_value, description, debit, credit, bank) ==
    IF date_value = NoDate THEN <<>>
    ELSE IF credit.ok /\ credit.v > 0
    THEN <<Txn(date_value, credit.v, "credit", bank, "table", description, NoCategory)>>
    ELSE IF debit.ok /\ debit.v > 0
    THEN <<Txn(date_value, debit.v, "debit", bank, "table", description, NoCategory)>>
    ELSE <<>>

Adv_extract_transaction_from_dict(row_dict, bank) ==
    Adv_dict_transaction(
        Adv_date_value(row_dict, <<"date", "txn date", "transaction date", "value date">>, 1),
        Adv_description(row_dict, <<"description", "particulars", "narration", "details">>, 1),
        Adv_extract_amount(row_dict, <<"debit", "withdrawal", "dr">>, 1),
        Adv_extract_amount(row_dict, <<"credit", "deposit", "cr">>, 1),
        bank)

\* "str(cell).strip() if cell else ''" over a row of a pdfplumber table
Adv_cell_text(c) == StrCell(IF Truthy(c) THEN Strip(Str(c)) ELSE "")

\* _extract_transaction_from_row
Adv_extract_transaction_from_row(row, headers, bank) ==
    Adv_extract_transaction_from_dict(
        DictOf(headers, [i \in 1..Len(row) |-> Adv_cell_text(row[i])], 1), bank)

\* _process_table_data: the header row, then every row of at least three cells
RECURSIVE Adv_table_rows(_, _, _, _)
Adv_table_rows(table, headers, k, bank) ==
    IF k > Len(table) THEN <<>>
    ELSE (IF Len(table[k]) >= 3
          THEN Adv_extract_transaction_from_row(table[k], headers, bank) ELSE <<>>)
         \o Adv_table_rows(table, headers, k + 1, bank)

Adv_process_table_data(table, bank) ==
    IF Len(table) < 2 THEN <<>>
    ELSE Adv_table_rows(table, [i \in 1..Len(table[1]) |-> Adv_cell_text(table[1][i]).s],
                        2, bank)

-----------------------------------------------------------------------------
(* pandas: reading a sheet into a DataFrame                                *)

\* A sheet is the header and the rows of fields as the file holds them, "" for an empty
\* field; a DataFrame is [columns, rows] with a cell for every field.  pandas gives a
\* column the type int64 when every field is an integer, float64 when every field
\* that is not empty is a number, and leaves the fields as strings otherwise; an
\* empty field becomes NaN.

IsIntText(s) ==
    LET b == IF Len(s) > 0 /\ Ch(s, 1) = "-" THEN 2 ELSE 1 IN
    b <= Len(s) /\ DigitRunEnd(s, b) = Len(s)

IsNumText(s) == s = Strip(s) /\ FloatOf(s).ok /\ ~Contains(s, "+")

\* repr() of a float given in hundredths
FloatRepr(v) ==
    LET a == IF v < 0 THEN -v ELSE v
        frac == a % 100
    IN (IF v < 0 THEN "-" ELSE "") \o ToString(a \div 100) \o "."
       \o (IF frac % 10 = 0 THEN ToString(frac \div 10)
           ELSE IF frac < 10 THEN "0" \o ToString(frac) ELSE ToString(frac))

\* str() of an int given as text
IntRepr(s) ==
    LET neg == Ch(s, 1) = "-"
        n == IntOf(IF neg THEN SubSeq(s, 2, Len(s)) ELSE s)
    IN (IF neg /\ n # 0 THEN "-" ELSE "") \o ToString(n)

ColumnType(rows, j) ==
    LET fields == {rows[i][j] : i \in 1..Len(rows)} IN
    IF fields # {} /\ \A f \in fields : IsIntText(f) THEN "int64"
    ELSE IF \A f \in fields : f = "" \/ IsNumText(f) THEN "float64"
    ELSE "object"

CellOf(f, dtype) ==
    IF f = "" THEN NaN
    ELSE IF dtype = "int64" THEN NumCell(IntRepr(f))
    ELSE IF dtype = "float64" THEN NumCell(FloatRepr(FloatOf(f).v))
    ELSE StrCell(f)

ReadCell(rows, i, j) == CellOf(rows[i][j], ColumnType(rows, j))

\* pd.read_csv / pd.read_excel of a sheet
ReadSheet(sheet) ==
    [columns |-> sheet.header,
     rows |-> [i \in 1..Len(sheet.rows) |->
                  [j \in 1..Len(sheet.header) |-> ReadCell(sheet.rows, i, j)]]]

\* df.to_csv(index=False): NaN is written as an empty field, every other cell as its
\* str()
ToCsv(df) ==
    [header |-> df.columns,
     rows |-> [i \in 1..Len(df.rows) |->
                  [j \in 1..Len(df.columns) |->
                      IF df.rows[i][j].t = "nan" THEN "" ELSE Str(df.rows[i][j])]]]

\* row.isnull().all()
AllNull(row) == \A j \in 1..Len(row) : row[j].t = "nan"

-----------------------------------------------------------------------------
(* BankStatementParser (statement_parser.py)                               *)

\* ' '.join(words)
RECURSIVE JoinWords(_, _)
JoinWords(words, k) ==
    IF k > Len(words) THEN ""
    ELSE IF k = Len(words) THEN words[k]
    ELSE words[k] \o " " \o JoinWords(words, k + 1)

\* bank_patterns: of the alternatives of each expression the ones an upper-case text
\* can match, in dict order
Csv_bank_patterns ==
    << [bank |-> "HDFC", name |-> {"HDFC"}], [bank |-> "ICICI", name |-> {"ICICI"}],
       [bank |-> "SBI", name |-> {"STATE BANK", "SBI"}], [bank |-> "AXIS", name |-> {"AXIS"}],
       [bank |-> "KOTAK", name |-> {"KOTAK"}] >>

RECURSIVE Csv_detect_from(_, _)
Csv_detect_from(text_upper, k) ==
    IF k > Len(Csv_bank_patterns) THEN "UNKNOWN"
    ELSE IF ContainsAny(text_upper, Csv_bank_patterns[k].name) THEN Csv_bank_patterns[k].bank
    ELSE Csv_detect_from(text_upper, k + 1)

Csv_detect_bank(text) == Csv_detect_from(Upper(text), 1)

Csv_date_formats ==
    <<"%d-%m-%Y", "%d/%m/%Y", "%Y-%m-%d", "%d-%b-%Y", "%d-%b-%y", "%d %b %Y", "%d %B %Y",
      "%Y%m%d", "%d%m%Y", "%d/%m/%y", "%d-%m-%y">>

Csv_parse_date(date_str) ==
    IF date_str = "" \/ Lower(date_str) \in {"nan", "nat", "none"} THEN NoDate
    ELSE FirstFormat(Strip(date_str), Csv_date_formats, 1)

\* next((col for col in df.columns if ...), None): the index of the column, 0 for None
FirstCol(columns, words, exact) ==
    LET M == {j \in 1..Len(columns) :
                 columns[j] # "" /\ (ContainsAny(columns[j], words) \/ columns[j] = exact)}
    IN IF M = {} THEN 0 ELSE MinOf(M)

\* self.categories of BankStatementParser, in the order of the dict; the last pattern,
\* 'others', matches anything
Csv_categories ==
    << [category |-> "food_dining", spaced |-> {},
        words |-> {"SWIGGY", "ZOMATO", "FOOD", "RESTAURANT", "EATERY", "CAFE", "MCDONALDS",
                   "PIZZA", "BURGER"}],
       [category |-> "groceries", spaced |-> {},
        words |-> {"BIG BAZAAR", "MORE", "DMART", "RELIANCE FRESH", "GROCERY",
                   "SUPERMARKET"}],
       [category |-> "shopping", spaced |-> {},
        words |-> {"AMAZON", "FLIPKART", "MYNTRA", "AJIO", "SHOPPING", "PURCHASE",
                   "BILLDESK"}],
       [category |-> "transport", spaced |-> {},
        words |-> {"UBER", "OLA", "RAPIDO", "METRO", "BUS", "TRAIN", "IRCTC", "FUEL",
                   "PETROL", "DIESEL", "BPCL", "HPCL"}],
       [category |-> "bills", spaced |-> {},
        words |-> {"ELECTRICITY", "WATER", "GAS", "PHONE", "MOBILE", "RECHARGE",
                   "POSTPAID", "PREPAID"}],
       [category |-> "entertainment", spaced |-> {},
        words |-> {"NETFLIX", "PRIME", "HOTSTAR", "ZEE5", "MOVIE", "CINEMA", "THEATRE"}],
       [category |-> "salary", spaced |-> {},
        words |-> {"SALARY", "CREDIT INTEREST", "INTEREST CREDITED", "DIVIDEND"}],
       [category |-> "transfer", spaced |-> {},
        words |-> {"IMPS", "NEFT", "RTGS", "UPI", "TRANSFER", "TO SELF"}],
       [category |-> "emi", spaced |-> {},
        words |-> {"EMI", "LOAN", "REPAYMENT"}],
       [category |-> "investment", spaced |-> {},
        words |-> {"MUTUAL FUND", "STOCK", "EQUITY", "INVEST", "ICICIDIRECT", "ZERODHA"}] >>

\* _categorize_transaction of BankStatementParser
Csv_categorize_transaction(description) ==
    IF description = "" THEN "others"
    ELSE FirstPattern(Upper(description), Csv_categories, 1, "others")

\* the amount cell of a row: used when it is not NaN and its text is not a zero
Csv_has_amount(row, col) ==
    col # 0 /\ row[col].t # "nan" /\ Strip(Str(row[col])) \notin {"", "0", "0.0", "0.00"}

Csv_abs(v) == IF v < 0 THEN -v ELSE v

\* the body of the loop over df.iterrows() in parse_csv: the transactions of one row;
\* col is the column the amount is taken from, 0 when there is none
Csv_amount_col(row, debit_col, credit_col) ==
    IF Csv_has_amount(row, debit_col) THEN debit_col
    ELSE IF Csv_has_amount(row, credit_col) THEN credit_col ELSE 0

Csv_amount(row, col) ==
    IF col = 0 THEN FloatFail ELSE FloatOf(RemoveAll(Str(row[col]), ","))

Csv_row_transaction(row, date, description, amount, txn_type, bank) ==
    IF AllNull(row) \/ date = NoDate \/ ~amount.ok THEN <<>>
    ELSE <<Txn(date, Csv_abs(amount.v), txn_type, bank, "csv", description,
               Csv_categorize_transaction(description))>>

Csv_row_amount(row, date_col, desc_col, debit_col, col, bank) ==
    Csv_row_transaction(row, Csv_parse_date(Str(row[date_col])), Str(row[desc_col]),
                        Csv_amount(row, col),
                        IF col = debit_col THEN "debit" ELSE "credit", bank)

Csv_row(row, date_col, desc_col, debit_col, credit_col, bank) ==
    Csv_row_amount(row, date_col, desc_col, debit_col,
                   Csv_amount_col(row, debit_col, credit_col), bank)

\* the loop over the cells of one row in _guess_and_parse; st is the date, the
\* description, the amount and the type found so far
RECURSIVE Csv_guess_cells(_, _, _, _)
RECURSIVE Csv_guess_cell(_, _, _, _, _, _, _, _)
Csv_guess_cell(columns, row, j, st, value_str, date, numbers, col) ==
    IF row[j].t = "nan" THEN Csv_guess_cells(columns, row, j + 1, st)
    ELSE IF st.date = NoDate /\ date # NoDate
    THEN Csv_guess_cells(columns, row, j + 1, [st EXCEPT !.date = date])
    ELSE IF numbers # <<>> /\ st.description = ""
    THEN Csv_guess_cells(columns, row, j + 1,
             [st EXCEPT !.amount = FloatOf(numbers[1]).v,
                        !.type = IF Contains(value_str, "-") \/ Contains(col, "dr")
                                 THEN "debit"
                                 ELSE IF Contains(col, "credit") THEN "credit"
                                 ELSE "debit"])
    ELSE IF st.description = "" /\ value_str # ""
            /\ ~IsDigits(RemoveAll(value_str, "."))
    THEN Csv_guess_cells(columns, row, j + 1, [st EXCEPT !.description = value_str])
    ELSE Csv_guess_cells(columns, row, j + 1, st)

Csv_guess_value(columns, row, j, st, value_str) ==
    Csv_guess_cell(columns, row, j, st, value_str, Csv_parse_date(value_str),
                   FindAllAmounts(RemoveAll(value_str, ","), 1, Adv_amount_pattern),
                   Lower(columns[j]))

Csv_guess_cells(columns, row, j, st) ==
    IF j > Len(row) THEN st
    ELSE Csv_guess_value(columns, row, j, st, Strip(Str(row[j])))

Csv_guess_transaction(row, st, bank) ==
    IF AllNull(row) \/ st.date = NoDate \/ st.amount = 0 THEN <<>>
    ELSE <<Txn(st.date, Csv_abs(st.amount), st.type, bank, "csv", st.description,
               Csv_categorize_transaction(st.description))>>

Csv_guess_row(columns, row, bank) ==
    Csv_guess_transaction(row,
        Csv_guess_cells(columns, row, 1,
            [date |-> NoDate, description |-> "", amount |-> 0, type |-> "debit"]),
        bank)

\* _guess_and_parse: the loop over df.iterrows()
RECURSIVE Csv_guess_and_parse(_, _, _, _)
Csv_guess_and_parse(columns, rows, k, bank) ==
    IF k > Len(rows) THEN <<>>
    ELSE Csv_guess_row(columns, rows[k], bank) \o Csv_guess_and_parse(columns, rows, k + 1, bank)

\* parse_csv: the loop over df.iterrows()
RECURSIVE Csv_rows(_, _, _, _, _, _, _)
Csv_rows(rows, k, date_col, desc_col, debit_col, credit_col, bank) ==
    IF k > Len(rows) THEN <<>>
    ELSE Csv_row(rows[k], date_col, desc_col, debit_col, credit_col, bank)
         \o Csv_rows(rows, k + 1, date_col, desc_col, debit_col, credit_col, bank)

\* parse_csv from the column mapping on
Csv_mapped(columns, rows, bank, date_col, desc_col, debit_col, credit_col) ==
    IF date_col = 0 \/ desc_col = 0 \/ (debit_col = 0 /\ credit_col = 0)
    THEN Csv_guess_and_parse(columns, rows, 1, bank)
    ELSE Csv_rows(rows, 1, date_col, desc_col, debit_col, credit_col, bank)

Csv_parse_columns(columns, rows) ==
    Csv_mapped(columns, rows, Csv_detect_bank(JoinWords(columns, 1)),
               FirstCol(columns, {"date"}, ""),
               FirstCol(columns, {"desc", "narration", "particular"}, ""),
               FirstCol(columns, {"debit", "withdrawal"}, "dr"),
               FirstCol(columns, {"credit", "deposit"}, "cr"))

\* parse_csv from the DataFrame on: the column names are stripped and lowered
Csv_parse_frame(df) ==
    Csv_parse_columns([j \in 1..Len(df.columns) |-> Lower(Strip(df.columns[j]))], df.rows)

-----------------------------------------------------------------------------
(* Texts                                                                   *)

\* A text is the sequence of its lines, text.split('\n'): "" is <<"">>.
EmptyText == <<"">>
NewLine == <<"", "">>

\* a + b for two texts: the last line of a runs on into the first line of b
TextCat(a, b) ==
    SubSeq(a, 1, Len(a) - 1) \o <<a[Len(a)] \o b[1]>> \o SubSeq(b, 2, Len(b))

IsBlank(line) == Strip(line) = ""

\* len(text.strip())
TextStripLen(text) ==
    LET inked == {k \in 1..Len(text) : ~IsBlank(text[k])}
        lo == MinOf(inked)
        hi == CHOOSE k \in inked : \A j \in inked : j <= k
        lead(l) == MinOf({i \in 1..Len(l) : ~IsSpace(Ch(l, i))}) - 1
        trail(l) == Len(l) - (CHOOSE i \in 1..Len(l) :
                                 ~IsSpace(Ch(l, i))
                                 /\ \A j \in (i + 1)..Len(l) : IsSpace(Ch(l, j)))
        Sum[k \in (lo - 1)..hi] == IF k < lo THEN 0 ELSE Sum[k - 1] + Len(text[k])
    IN IF inked = {} THEN 0
       ELSE Sum[hi] + (hi - lo) - lead(text[lo]) - trail(text[hi])

\* "needle in text" for a needle without a line break
TextContains(text, needle) == \E k \in 1..Len(text) : Contains(text[k], needle)

-----------------------------------------------------------------------------
(* AdvancedBankStatementParser: frames, cleaning, the PDF strategies       *)

\* _process_dataframe: column names stripped, rows that are all NaN dropped
RECURSIVE Adv_frame_rows(_, _, _, _)
Adv_frame_rows(columns, rows, k, bank) ==
    IF k > Len(rows) THEN <<>>
    ELSE (IF AllNull(rows[k]) THEN <<>>
          ELSE Adv_extract_transaction_from_dict(DictOf(columns, rows[k], 1), bank))
         \o Adv_frame_rows(columns, rows, k + 1, bank)

Adv_process_dataframe(df, bank) ==
    Adv_frame_rows([j \in 1..Len(df.columns) |-> Strip(df.columns[j])], df.rows, 1, bank)

\* list.sort(key=date, reverse=True): stable, latest date first
RECURSIVE SortByDateDesc(_)
SortByDateDesc(txns) ==
    IF txns = <<>> THEN <<>>
    ELSE LET rest == SortByDateDesc(Tail(txns))
             before == SelectSeq(rest, LAMBDA t : t.date > Head(txns).date)
             after == SelectSeq(rest, LAMBDA t : t.date <= Head(txns).date)
         IN before \o <<Head(txns)>> \o after

\* CATEGORY_PATTERNS, in the order of the dict: the alternatives of each pattern that
\* are plain words, and those that are words separated by \s*.  The patterns are
\* searched in description.upper(); the last one, 'others', matches anything.
Adv_CATEGORY_PATTERNS ==
    << [category |-> "food_dining", spaced |-> {},
        words |-> {"SWIGGY", "ZOMATO", "DOMINOS", "PIZZA", "RESTAURANT", "CAFE", "HOTEL",
                   "FOOD", "DINING"}],
       [category |-> "groceries", spaced |-> {},
        words |-> {"BIGBASKET", "GROFERS", "DMart", "RELIANCE", "FRESH", "GROCERY",
                   "SUPERMARKET", "WALMART"}],
       [category |-> "fuel", spaced |-> {<<"BHARAT", "PETROLEUM">>},
        words |-> {"PETROL", "DIESEL", "FUEL", "HP", "BPCL", "IOCL", "SHELL"}],
       [category |-> "utilities", spaced |-> {},
        words |-> {"ELECTRICITY", "WATER", "GAS", "BROADBAND", "INTERNET", "MOBILE",
                   "TELECOM", "AIRTEL", "JIO", "VI"}],
       [category |-> "entertainment", spaced |-> {<<"AMAZON", "PRIME">>},
        words |-> {"NETFLIX", "HOTSTAR", "SPOTIFY", "BOOKMYSHOW", "CINEMA", "MOVIE"}],
       [category |-> "transportation", spaced |-> {},
        words |-> {"UBER", "OLA", "METRO", "BUS", "RAILWAY", "IRCTC", "AUTO", "TAXI",
                   "TRANSPORT"}],
       [category |-> "shopping", spaced |-> {},
        words |-> {"AMAZON", "FLIPKART", "MYNTRA", "SHOPPING", "MALL", "STORE", "RETAIL"}],
       [category |-> "medical", spaced |-> {},
        words |-> {"HOSPITAL", "MEDICAL", "PHARMACY", "APOLLO", "DOCTOR", "HEALTH",
                   "MEDICINE"}],
       [category |-> "education", spaced |-> {},
        words |-> {"SCHOOL", "COLLEGE", "UNIVERSITY", "EDUCATION", "COURSE", "TRAINING",
                   "TUITION"}],
       [category |-> "investment", spaced |-> {<<"MUTUAL", "FUND">>},
        words |-> {"SIP", "INSURANCE", "INVESTMENT", "ZERODHA", "GROWW", "UPSTOX"}],
       [category |-> "transfer", spaced |-> {},
        words |-> {"TRANSFER", "NEFT", "RTGS", "IMPS", "UPI", "PAYTM", "PHONEPE", "GPAY",
                   "WALLET"}],
       [category |-> "salary", spaced |-> {<<"SAL", "CREDIT">>},
        words |-> {"SALARY", "PAYROLL", "WAGES", "INCOME"}],
       [category |-> "bank_charges", spaced |-> {},
        words |-> {"CHARGES", "FEE", "PENALTY", "INTEREST", "MAINTENANCE", "SERVICE"}],
       [category |-> "cash_withdrawal",
        spaced |-> {<<"ATM", "WDL">>, <<"CASH", "WITHDRAWAL">>},
        words |-> {"ATM", "WITHDRAWAL"}] >>

\* _categorize_transaction of AdvancedStatementParser
Adv_categorize_transaction(description) ==
    FirstPattern(Upper(description), Adv_CATEGORY_PATTERNS, 1, "others")

\* _clean_and_categorize_transactions: records without a date or with amount 0 are
\* dropped, the others get their category, and the list is sorted
Adv_keeps(t) == t.date # NoDate /\ t.amount # 0

Adv_categorized(t) == [t EXCEPT !.category = Adv_categorize_transaction(t.description)]

Adv_clean_and_categorize_transactions(transactions) ==
    SortByDateDesc([k \in 1..Len(SelectSeq(transactions, Adv_keeps)) |->
                       Adv_categorized(SelectSeq(transactions, Adv_keeps)[k])])


\* The outcome of a strategy as the parse logs it: count is the number of transactions
\* it returned, -1 when it raised.
Call(strategy, count) == [strategy |-> strategy, count |-> count]

\* str(e) of the exception a library raises on a file it cannot open or decode
OpenError == "cannot open file"

\* the bank of the statement: detected on the first page that has text
Adv_page_bank(text, detected_bank) ==
    IF detected_bank = None THEN Adv_detect_bank(JoinLines(text, 1)) ELSE detected_bank

\* the loop over page.extract_tables()
RECURSIVE Adv_page_tables(_, _, _)
Adv_page_tables(tables, t, bank) ==
    IF t > Len(tables) THEN <<>>
    ELSE Adv_process_table_data(tables[t], bank) \o Adv_page_tables(tables, t + 1, bank)

\* one page with text: its text, its bank, the transactions of its tables
Adv_plumber_page(page, st, bank) ==
    [full_text |-> TextCat(st.full_text, page.text), detected_bank |-> bank,
     transactions |-> st.transactions \o Adv_page_tables(page.tables, 1, bank)]

\* the loop over pdf.pages in _parse_pdf_with_pdfplumber
RECURSIVE Adv_plumber_pages(_, _, _)
Adv_plumber_pages(pages, k, st) ==
    IF k > Len(pages) THEN st
    ELSE IF pages[k].text = EmptyText THEN Adv_plumber_pages(pages, k + 1, st)
    ELSE Adv_plumber_pages(pages, k + 1,
             Adv_plumber_page(pages[k], st, Adv_page_bank(pages[k].text, st.detected_bank)))

\* after the tables: is the regex pass over the page text run?
Adv_tries_regex(transactions, full_text) == transactions = <<>> /\ full_text # EmptyText

\* _parse_pdf_with_pdfplumber; pdfplumber.open raises on a file it cannot open
Adv_plumber_result(st, regex, found) ==
    [raised |-> FALSE, txns |-> Adv_clean_and_categorize_transactions(found),
     calls |-> <<Call("tables", Len(st.transactions))>>
               \o (IF regex THEN <<Call("regex", Len(found))>> ELSE <<>>)]

Adv_plumber_found(st, regex) ==
    Adv_plumber_result(st, regex,
        IF regex THEN Adv_parse_text_with_regex(st.full_text, st.detected_bank)
        ELSE st.transactions)

Adv_plumber_read(st) == Adv_plumber_found(st, Adv_tries_regex(st.transactions, st.full_text))

Adv_parse_pdf_with_pdfplumber(doc) ==
    IF ~doc.ok THEN [raised |-> TRUE, txns |-> <<>>, calls |-> <<Call("tables", -1)>>]
    ELSE Adv_plumber_read(Adv_plumber_pages(doc.pages, 1,
             [full_text |-> EmptyText, detected_bank |-> None, transactions |-> <<>>]))

\* table.df of a camelot table: the columns are numbered from 0, every row of the
\* table is a row of strings
Adv_camelot_frame(table) ==
    LET width == IF table = <<>> THEN 0 ELSE Len(table[1]) IN
    [columns |-> [j \in 1..width |-> ToString(j - 1)],
     rows |-> [i \in 1..Len(table) |->
                  [j \in 1..width |-> IF j <= Len(table[i]) /\ table[i][j].t = "str"
                                      THEN table[i][j] ELSE StrCell("")]]]

\* "if not df.empty and len(df.columns) >= 4"
Adv_frame_used(df) == df.rows # <<>> /\ Len(df.columns) >= 4

\* the bank of the statement: detected on the first row of the first table used
Adv_camelot_bank(df, detected_bank) ==
    IF Adv_frame_used(df) /\ detected_bank = None
    THEN Adv_detect_bank(JoinWords([j \in 1..Len(df.columns) |-> Str(df.rows[1][j])], 1))
    ELSE detected_bank

\* the loop over the tables in _parse_pdf_with_camelot
RECURSIVE Adv_camelot_tables(_, _, _)
RECURSIVE Adv_camelot_table(_, _, _, _)
Adv_camelot_table(tables, k, df, bank) ==
    (IF Adv_frame_used(df) THEN Adv_process_dataframe(df, bank) ELSE <<>>)
    \o Adv_camelot_tables(tables, k + 1, bank)

Adv_camelot_frames(tables, k, detected_bank, df) ==
    Adv_camelot_table(tables, k, df, Adv_camelot_bank(df, detected_bank))

Adv_camelot_tables(tables, k, detected_bank) ==
    IF k > Len(tables) THEN <<>>
    ELSE Adv_camelot_frames(tables, k, detected_bank, Adv_camelot_frame(tables[k]))

RECURSIVE AllTables(_, _)
AllTables(pages, k) ==
    IF k > Len(pages) THEN <<>> ELSE pages[k].tables \o AllTables(pages, k + 1)

\* _parse_pdf_with_camelot: every exception gives []
Adv_parse_pdf_with_camelot(doc, env) ==
    IF ~doc.ok \/ ~env.camelot THEN <<>>
    ELSE Adv_clean_and_categorize_transactions(
             Adv_camelot_tables(AllTables(doc.pages, 1), 1, None))

\* full_text += text + "\n" over the pages
RECURSIVE OcrText(_, _)
OcrText(pages, k) ==
    IF k > Len(pages) THEN EmptyText
    ELSE TextCat(TextCat(pages[k].ocr, NewLine), OcrText(pages, k + 1))

\* _parse_pdf_with_ocr: every exception gives []; open is whether the document fitz
\* opened is still open when the function returns
Adv_ocr_transactions(full_text) ==
    Adv_clean_and_categorize_transactions(
        Adv_parse_text_with_regex(full_text, Adv_detect_bank(JoinLines(full_text, 1))))

Adv_parse_pdf_with_ocr(doc, env) ==
    IF ~env.fitz \/ ~doc.ok THEN [txns |-> <<>>, open |-> FALSE]
    ELSE IF doc.pages # <<>> /\ ~env.tesseract THEN [txns |-> <<>>, open |-> TRUE]
    ELSE IF \E k \in 1..Len(doc.pages) : ~doc.pages[k].recognized
    THEN [txns |-> <<>>, open |-> TRUE]
    ELSE [txns |-> Adv_ocr_transactions(OcrText(doc.pages, 1)), open |-> FALSE]

\* what parse_statement returns: the 'error' and 'method' keys (None when the dict has
\* none) and the transactions; calls and open are bookkeeping: the strategies invoked,
\* in order, and whether a document is left open
AdvResult(error, transactions, method, calls, open) ==
    [error |-> error, transactions |-> transactions, method |-> method,
     calls |-> calls, open |-> open]

\* a chain that goes on to the next method whatever the last one returned
Adv_returns_never(transactions) == FALSE

\* one link of the chain of _parse_pdf_statement: "if transactions: return"
Adv_returns(transactions) == transactions # <<>>

\* _parse_pdf_statement: Method 3, then Method 2 before it, then Method 1
Adv_pdf_ocr(calls, ocr) ==
    AdvResult(None, ocr.txns, "ocr", calls \o <<Call("ocr", Len(ocr.txns))>>, ocr.open)

Adv_pdf_camelot(doc, env, calls, camelot) ==
    IF Adv_returns(camelot)
    THEN AdvResult(None, camelot, "camelot", calls \o <<Call("camelot", Len(camelot))>>, FALSE)
    ELSE Adv_pdf_ocr(calls \o <<Call("camelot", Len(camelot))>>,
                     Adv_parse_pdf_with_ocr(doc, env))

Adv_pdf_plumber(doc, env, plumber) ==
    IF plumber.raised THEN AdvResult(OpenError, <<>>, None, plumber.calls, FALSE)
    ELSE IF Adv_returns(plumber.txns)
    THEN AdvResult(None, plumber.txns, "pdfplumber", plumber.calls, FALSE)
    ELSE Adv_pdf_camelot(doc, env, plumber.calls, Adv_parse_pdf_with_camelot(doc, env))

Adv_parse_pdf_statement(doc, env) ==
    Adv_pdf_plumber(doc, env, Adv_parse_pdf_with_pdfplumber(doc))

\* the transactions of a DataFrame read from a file
Adv_frame_transactions(df) ==
    Adv_process_dataframe(df, Adv_detect_bank(JoinWords(df.columns, 1)))

\* _parse_csv_statement
Adv_csv_result(txns) == AdvResult(None, txns, "csv", <<Call("csv", Len(txns))>>, FALSE)

Adv_parse_csv_statement(doc) ==
    IF ~doc.ok THEN AdvResult(OpenError, <<>>, None, <<Call("csv", -1)>>, FALSE)
    ELSE Adv_csv_result(Adv_clean_and_categorize_transactions(
                            Adv_frame_transactions(ReadSheet(doc.sheet))))

\* _parse_excel_statement, for a workbook of one sheet
Adv_excel_result(txns) ==
    IF txns # <<>>
    THEN AdvResult(None, Adv_clean_and_categorize_transactions(txns), "excel",
                   <<Call("excel", Len(txns))>>, FALSE)
    ELSE AdvResult("No valid transaction data found in Excel file", <<>>, None,
                   <<Call("excel", 0)>>, FALSE)

Adv_excel_sheet(df) ==
    Adv_excel_result(IF Len(df.rows) > 0 /\ Len(df.columns) >= 4
                     THEN Adv_frame_transactions(df) ELSE <<>>)

Adv_parse_excel_statement(doc) ==
    IF ~doc.ok THEN AdvResult(OpenError, <<>>, None, <<Call("excel", -1)>>, FALSE)
    ELSE Adv_excel_sheet(ReadSheet(doc.sheet))

\* _parse_image_statement: the image is one page
Adv_image_result(txns) ==
    AdvResult(None, txns, "ocr_image", <<Call("ocr_image", Len(txns))>>, FALSE)

Adv_parse_image_statement(doc, env) ==
    IF ~doc.ok \/ ~env.tesseract
    THEN AdvResult(OpenError, <<>>, None, <<Call("ocr_image", -1)>>, FALSE)
    ELSE Adv_image_result(Adv_ocr_transactions(doc.pages[1].ocr))

\* Path(name).suffix
Suffix(name) ==
    LET dots == {i \in 1..Len(name) : Ch(name, i) = "."}
        last == CHOOSE i \in dots : \A j \in dots : j <= i
    IN IF dots = {} \/ last = 1 \/ last = Len(name) THEN "" ELSE SubSeq(name, last, Len(name))

\* parse_statement
Adv_parse_extension(doc, env, extension) ==
    IF extension = ".pdf" THEN Adv_parse_pdf_statement(doc, env)
    ELSE IF extension = ".csv" THEN Adv_parse_csv_statement(doc)
    ELSE IF extension \in {".xlsx", ".xls"} THEN Adv_parse_excel_statement(doc)
    ELSE IF extension \in {".jpg", ".jpeg", ".png", ".tiff"}
    THEN Adv_parse_image_statement(doc, env)
    ELSE AdvResult("Unsupported file format: " \o extension, <<>>, None, <<>>, FALSE)

Adv_parse_statement(doc, env) == Adv_parse_extension(doc, env, Lower(Suffix(doc.name)))

-----------------------------------------------------------------------------
(* GeminiPDFParser and EnhancedPDFParser.parse_pdf                         *)

\* text += page.extract_text() + "\n" over the pages; the read error of a file that
\* cannot be opened is swallowed and leaves ""
RECURSIVE PagesText(_, _)
PagesText(pages, k) ==
    IF k > Len(pages) THEN EmptyText
    ELSE TextCat(TextCat(pages[k].text, NewLine), PagesText(pages, k + 1))

Enh_extract_text_from_pdf(doc) == IF doc.ok THEN PagesText(doc.pages, 1) ELSE EmptyText

\* GeminiPDFParser.__init__ and is_available: self.model is not None
Gem_is_available(env) == env.genai /\ env.api_key /\ env.genai_init

\* the validation loop of _extract_with_gemini over the entries of the response
Gem_entry(txn, date_obj, amount) ==
    IF txn.fields /\ date_obj # NoDate /\ amount.ok /\ ~NotPositive(amount.v)
       /\ txn.type \in {"credit", "debit"}
    THEN <<Txn(date_obj, amount.v, txn.type, "Extracted by AI", "gemini",
               Truncated(txn.description),
               IF txn.category = NoCategory THEN "others" ELSE txn.category)>>
    ELSE <<>>

RECURSIVE Gem_validate(_, _)
Gem_validate(entries, k) ==
    IF k > Len(entries) THEN <<>>
    ELSE Gem_entry(entries[k], Strptime(entries[k].date, "%Y-%m-%d"),
                   JsonFloat(entries[k].amount))
         \o Gem_validate(entries, k + 1)

\* _extract_with_gemini: ai is what the service does with the prompt; a call that
\* raises and a response that is not JSON both give []
Gem_extract_with_gemini(ai) == IF ai.json THEN Gem_validate(ai.entries, 1) ELSE <<>>

\* GeminiPDFParser._extract_text_from_pdf
Gem_extract_text_from_pdf(doc, env) ==
    IF env.pypdf2 THEN Enh_extract_text_from_pdf(doc) ELSE EmptyText

\* GeminiPDFParser.parse_pdf
Gem_parse_pdf(doc, env, ai) ==
    IF ~Gem_is_available(env) THEN <<>>
    ELSE IF TextStripLen(Gem_extract_text_from_pdf(doc, env)) < 50 THEN <<>>
    ELSE Gem_extract_with_gemini(ai)

\* GeminiPDFParser.parse_with_image: the file is uploaded to the service and the
\* response validated as in _extract_with_gemini; an upload or a call that raises
\* and a response that is not JSON give []
Gem_vision_entry(t) == [t EXCEPT !.bank = "Extracted by AI Vision"]

Gem_parse_with_image(env, ai) ==
    IF ~Gem_is_available(env) THEN <<>>
    ELSE [k \in DOMAIN Gem_extract_with_gemini(ai) |->
             Gem_vision_entry(Gem_extract_with_gemini(ai)[k])]

\* parse_with_gemini(filepath, api_key, use_vision)
parse_with_gemini(doc, env, ai, use_vision) ==
    IF use_vision THEN Gem_parse_with_image(env, ai) ELSE Gem_parse_pdf(doc, env, ai)

\* EnhancedPDFParser.__init__: self.gemini_parser is set
Enh_gemini_parser(env) ==
    env.use_gemini_fallback /\ env.gemini_module /\ Gem_is_available(env)

\* _get_sample_transactions, and get_indian_sample_transactions of statement_api:
\* five records dated from the clock
SampleOffsets == <<1, 2, 3, 5, 7>>
SampleAmounts == <<7500000, 45000, 1000000, 2500000, 180000>>
SampleDescriptions ==
    <<"SALARY CREDIT - COMPANY NAME", "UPI-SWIGGY-FOOD ORDER", "ATM CASH WITHDRAWAL",
      "NEFT-RENT PAYMENT", "ELECTRICITY BILL PAYMENT">>
SampleCategories == <<"salary", "food_dining", "cash_withdrawal", "utilities", "utilities">>

Enh_get_sample_transactions(clock) ==
    [k \in 1..5 |-> Txn(clock - 30 + SampleOffsets[k], SampleAmounts[k],
                        IF k = 1 THEN "credit" ELSE "debit", NoBank, "sample",
                        SampleDescriptions[k], SampleCategories[k])]

\* is the Indian Bank parser tried?
Enh_tries_indian(text, env) ==
    (TextContains(text, "Indian Bank") \/ TextContains(text, "ACCOUNT ACTIVITY"))
    /\ env.indian

\* a parser that tries the AI parser whether it is set or not
Enh_tries_gemini_unset(transactions, env) == transactions = <<>>

\* is the AI parser tried after the generic parser returned transactions?
Enh_tries_gemini(transactions, env) == transactions = <<>> /\ Enh_gemini_parser(env)

EnhResult(transactions, calls) == [transactions |-> transactions, calls |-> calls]

\* parse_pdf, from the last step back: the AI parser, the generic parser, the Indian
\* Bank parser, the text
Enh_after_gemini(clock, calls, gemini) ==
    EnhResult(IfNone(gemini, Enh_get_sample_transactions(clock)),
              calls \o <<Call("gemini", Len(gemini))>>)

Enh_after_generic(doc, env, clock, ai, calls, generic) ==
    IF generic.err
    THEN EnhResult(Enh_get_sample_transactions(clock), calls \o <<Call("generic", -1)>>)
    ELSE IF Enh_tries_gemini(generic.txns, env)
    THEN Enh_after_gemini(clock, calls \o <<Call("generic", Len(generic.txns))>>,
                          Gem_parse_pdf(doc, env, ai))
    ELSE EnhResult(IfNone(generic.txns, Enh_get_sample_transactions(clock)),
                   calls \o <<Call("generic", Len(generic.txns))>>)

Enh_after_indian(doc, env, clock, ai, text, tried, indian) ==
    IF indian # <<>> THEN EnhResult(indian, <<Call("indian", Len(indian))>>)
    ELSE Enh_after_generic(doc, env, clock, ai,
                           IF tried THEN <<Call("indian", 0)>> ELSE <<>>,
                           Enh_parse_transactions_from_text(text))

Enh_parse_text(doc, env, clock, ai, text, tried) ==
    IF TextStripLen(text) < 100 THEN EnhResult(Enh_get_sample_transactions(clock), <<>>)
    ELSE Enh_after_indian(doc, env, clock, ai, text, tried,
                          IF tried THEN Ind_parse_text(text) ELSE <<>>)

Enh_extracted(doc, env, clock, ai, text) ==
    Enh_parse_text(doc, env, clock, ai, text, Enh_tries_indian(text, env))

Enh_parse_pdf(doc, env, clock, ai) ==
    IF ~env.pypdf2 THEN EnhResult(Enh_get_sample_transactions(clock), <<>>)
    ELSE Enh_extracted(doc, env, clock, ai, Enh_extract_text_from_pdf(doc))

-----------------------------------------------------------------------------
(* FreePDFParser.parse_pdf                                                 *)

\* '\n'.join of the texts OCR reads off the pages
RECURSIVE Free_ocr_text(_, _)
Free_ocr_text(pages, k) ==
    IF k > Len(pages) THEN EmptyText
    ELSE IF k = Len(pages) THEN pages[k].ocr
    ELSE TextCat(TextCat(pages[k].ocr, NewLine), Free_ocr_text(pages, k + 1))

\* _extract_text_from_pdf: "" when Tesseract is missing, when the conversion raises
\* and when image_to_string raises on a page (one try around the loop)
Free_extract_text_from_pdf(doc, env) ==
    IF env.tesseract /\ doc.ok /\ \A k \in 1..Len(doc.pages) : doc.pages[k].recognized
    THEN Free_ocr_text(doc.pages, 1) ELSE EmptyText

Free_parse_text(env, text) ==
    IF ~env.tesseract \/ TextStripLen(text) < 100 THEN <<>> ELSE Free_parse_lines(text, 1)

Free_parse_pdf(doc, env) == Free_parse_text(env, Free_extract_text_from_pdf(doc, env))

-----------------------------------------------------------------------------
(* statement_api: upload_statement                                         *)

ALLOWED_EXTENSIONS == {"pdf", "csv", "xlsx", "xls", "jpg", "jpeg", "png"}

\* the index of the last "." of a name, 0 when it has none
LastDot(name) ==
    LET dots == {i \in 1..Len(name) : Ch(name, i) = "."} IN
    IF dots = {} THEN 0 ELSE CHOOSE i \in dots : \A j \in dots : j <= i

\* filename.rsplit('.', 1)[1].lower(); only used on a name that has a "."
Extension(filename) == Lower(SubSeq(filename, LastDot(filename) + 1, Len(filename)))

allowed_file(filename) ==
    LastDot(filename) # 0 /\ Extension(filename) \in ALLOWED_EXTENSIONS

\* werkzeug's secure_filename: the characters outside ASCII are dropped, every run of
\* path separators and white space becomes one "_", every character outside
\* [A-Za-z0-9_.-] is dropped, and "." and "_" are stripped off the two ends
IsSep(c) == IsSpace(c) \/ c = "/"

RECURSIVE SecureRange(_, _, _)
SecureRange(s, lo, hi) ==
    IF lo > hi THEN ""
    ELSE IF lo = hi THEN
        LET c == Ch(s, lo) IN
        IF IsSep(c) THEN (IF lo > 1 /\ IsSep(Ch(s, lo - 1)) THEN "" ELSE "_")
        ELSE IF IsWordCh(c) \/ c \in {".", "-"} THEN c
        ELSE ""
    ELSE LET mid == (lo + hi) \div 2 IN
         SecureRange(s, lo, mid) \o SecureRange(s, mid + 1, hi)

secure_filename(name) ==
    LET ascii == RemoveAll(name, Rupee)
        t == SecureRange(ascii, 1, Len(ascii))
        keep == {i \in 1..Len(t) : Ch(t, i) \notin {".", "_"}}
    IN IF keep = {} THEN ""
       ELSE SubSeq(t, MinOf(keep), CHOOSE i \in keep : \A j \in keep : j <= i)

\* os.path.splitext(filepath)[0] + '.csv'
CsvPath(filepath) ==
    (IF LastDot(filepath) <= 1 THEN filepath ELSE SubSeq(filepath, 1, LastDot(filepath) - 1))
    \o ".csv"

\* UPLOAD_FOLDER is a function from the paths that exist to the content of the file
Exists(dir, path) == path \in DOMAIN dir
WriteFile(dir, path, content) ==
    [q \in DOMAIN dir \cup {path} |-> IF q = path THEN content ELSE dir[q]]
RemoveFile(dir, path) == [q \in DOMAIN dir \ {path} |-> dir[q]]

\* the file df.to_csv(csv_path, index=False) writes
CsvFile(csv_path, df) ==
    [name |-> csv_path, ok |-> TRUE, pages |-> <<>>, sheet |-> ToCsv(df)]

\* BankStatementParser.parse_csv on a path: [] on a file that is missing or that
\* pandas cannot read (the exception is caught and logged)
Csv_parse_csv(dir, path) ==
    IF ~Exists(dir, path) \/ ~dir[path].ok THEN <<>>
    ELSE Csv_parse_frame(ReadSheet(dir[path].sheet))

\* the responses of upload_statement: the HTTP status, the 'error' key (None when the
\* body has none), the extensions the message lists, and the 'transactions' key
NoTransactionsFound == "No transactions found in the statement. Please check the file format."

Response(status, error, listing, transactions) ==
    [status |-> status, error |-> error, listing |-> listing, transactions |-> transactions]

NoResponse == Response(0, None, {}, <<>>)

\* the response after the clean-up, "if not transactions: ... 400"
UploadResponse(transactions) ==
    IF transactions = <<>> THEN Response(400, NoTransactionsFound, {}, <<>>)
    ELSE Response(200, None, {}, transactions)

\* the response of the except branch; str(e) is not modelled
ServerError == Response(500, "Error processing file: ", {}, <<>>)

-----------------------------------------------------------------------------
(* The installations and the documents the parsers are run on             *)

\* every library importable, the API key set, the fallback switched on
Installed ==
    [pypdf2 |-> TRUE, indian |-> TRUE, gemini_module |-> TRUE, genai |-> TRUE,
     api_key |-> TRUE, genai_init |-> TRUE, use_gemini_fallback |-> TRUE,
     fitz |-> TRUE, tesseract |-> TRUE, camelot |-> TRUE]

Without(flag) == [Installed EXCEPT ![flag] = FALSE]

\* the libraries and switches each parser consults
Consults(parser) ==
    IF parser = "advanced" THEN {"camelot", "fitz", "tesseract"}
    ELSE IF parser = "enhanced"
    THEN {"pypdf2", "indian", "gemini_module", "genai", "api_key", "genai_init",
          "use_gemini_fallback"}
    ELSE IF parser = "free" THEN {"tesseract"}
    ELSE IF parser = "gemini" THEN {"pypdf2", "genai", "api_key", "genai_init"}
    ELSE {}

Installations(parser) == {Installed} \cup {Without(flag) : flag \in Consults(parser)}

\* what the AI service answers: text that is not JSON, an empty array, an array of
\* entries (three usable, one of them with a category of the service's own and one
\* without the key, the others each failing one validation)
AiEntry(fields, date, description, amount, type, category) ==
    [fields |-> fields, date |-> date, description |-> description, amount |-> amount,
     type |-> type, category |-> category]

AiResponses ==
    {[json |-> FALSE, entries |-> <<>>],
     [json |-> TRUE, entries |-> <<>>],
     [json |-> TRUE,
      entries |-> <<AiEntry(TRUE, "2025-10-10", "UPI-SWIGGY-FOOD ORDER", "450.0", "debit",
                            "food_dining"),
                    AiEntry(FALSE, "2025-10-11", "", "1", "debit", NoCategory),
                    AiEntry(TRUE, "11/10/2025", "NEFT-RENT", "1", "debit", "utilities"),
                    AiEntry(TRUE, "2025-10-12", "REFUND", "-5", "credit", "others"),
                    AiEntry(TRUE, "2025-10-13", "REFUND", "0", "credit", "others"),
                    AiEntry(TRUE, "2025-10-14", "REFUND", "12.50", "Credit", "others"),
                    AiEntry(TRUE, "2025-10-15", "IRCTC TICKET", "820.00", "debit", "travel"),
                    AiEntry(TRUE, "2025-10-16", "EMI HDFC", "5000", "debit", NoCategory)>>]}

\* a page: the text and the tables pdfplumber and PyPDF2 extract, the text the OCR
\* reads on its image, and whether the OCR of the page returns (recognized) or raises
Page(text, tables, ocr) == [text |-> text, tables |-> tables, ocr |-> ocr, recognized |-> TRUE]
Unrecognized(page) == [page EXCEPT !.recognized = FALSE]
NoSheet == [header |-> <<>>, rows |-> <<>>]
Paged(name, pages) == [name |-> name, ok |-> TRUE, pages |-> pages, sheet |-> NoSheet]
Sheet(name, header, rows) ==
    [name |-> name, ok |-> TRUE, pages |-> <<>>, sheet |-> [header |-> header, rows |-> rows]]
Unreadable(name) == [name |-> name, ok |-> FALSE, pages |-> <<>>, sheet |-> NoSheet]

\* a heading that takes the text of a page to 100 characters and more
Heading ==
    "Statement of account for the period 01 Oct 2025 to 31 Oct 2025, customer id 0000, branch Main Road."

IndianText ==
    <<Heading, "Indian Bank", "ACCOUNT ACTIVITY",
      "Date Transaction Details Debits Credits Balance",
      "10 Oct 2025 UPI/528312345/SWIGGY - INR 450.00 INR 12,345.50",
      "12 Oct 2025 NEFT SALARY ACME + INR 75,000.00 INR 87,345.50">>

GenericText ==
    <<Heading, "10 Oct 2025 UPI/528312345/SWIGGY INR 450.00",
      "12 Oct 2025 salary credit ACME Rs.75,000.00 done">>

NumericText ==
    <<Heading, "HDFC Bank", "12/03/2024 ATM CASH WITHDRAWAL 5000.00",
      "05/03/2024 NEFT CR SALARY Rs.75,000.00", "BAL B/F 01/03/24 ₹0.00">>

ProseText == <<Heading, "No activity in this period. Thank you for banking with us.">>

IndianHeadedText == <<Heading, "Indian Bank", "10 Oct 2025 UPI/528312345/SWIGGY INR 450.00">>

TableHeader ==
    <<StrCell("Date"), StrCell("Description"), StrCell("Debit"), StrCell("Credit"),
      StrCell("Balance")>>

StatementTable ==
    <<TableHeader,
      <<StrCell("01/03/2024"), StrCell("Salary Credit"), StrCell(""), StrCell("75000.00"),
        StrCell("75000.00")>>,
      <<StrCell("05/03/2024"), StrCell("UPI SWIGGY"), StrCell("450.00"), NoneCell,
        StrCell("74550.00")>>>>

IndianPdf == Paged("indian.pdf", <<Page(IndianText, <<>>, IndianText)>>)
GenericPdf == Paged("generic.pdf", <<Page(GenericText, <<>>, GenericText)>>)
NumericPdf == Paged("numeric.pdf", <<Page(NumericText, <<>>, NumericText)>>)
ProsePdf == Paged("prose.pdf", <<Page(ProseText, <<>>, ProseText)>>)
IndianHeadedPdf == Paged("headed.pdf", <<Page(IndianHeadedText, <<>>, EmptyText)>>)
TablesPdf ==
    Paged("tables.pdf", <<Page(<<"ICICI Bank", "Account statement">>, <<StatementTable>>,
                             <<"ICICI Bank">>),
                        Page(<<"page 2">>, <<<<TableHeader>>>>, EmptyText)>>)
ScanPdf == Paged("scan.pdf", <<Page(EmptyText, <<>>, NumericText)>>)
BlankPdf == Paged("blank.pdf", <<Page(EmptyText, <<>>, EmptyText)>>)
ShortPdf == Paged("short.pdf", <<Page(<<"12/03/2024 ATM 1.00">>, <<>>, <<"12/03/2024 ATM 1.00">>)>>)
CorruptPdf == Unreadable("corrupt.pdf")
NamelessPdf == Paged("₹.pdf", <<Page(GenericText, <<>>, GenericText)>>)

StatementCsv ==
    Sheet("my stmt.csv", <<"Date", "Description", "Debit", "Credit", "Balance">>,
          <<<<"01/03/2024", "Salary", "", "75000.00", "75000.00">>,
            <<"02/03/2024", "UPI", "450.00", "", "74550.00">>,
            <<"", "", "", "", "">>>>)
OtherCsv ==
    Sheet("my_stmt.csv", <<"Date", "Description", "Debit", "Credit", "Balance">>,
          <<<<"09/03/2024", "Rent", "25000.00", "", "49550.00">>>>)
ZeroCsv ==
    Sheet("zero.csv", <<"Txn Date", "Narration", "Withdrawal Amt", "Deposit Amt">>,
          <<<<"05-Mar-2024", "ATM", "1,200.50", "">>,
            <<"06-Mar-2024", "nothing", "0.000", "">>>>)
GuessCsv ==
    Sheet("guess.csv", <<"When", "What", "Amount">>,
          <<<<"01/03/2024", "Rent", "25000">>, <<"03/03/2024", "Refund -", "-5.25">>>>)
EmptyCsv == Sheet("empty.csv", <<"Date", "Description", "Debit", "Credit", "Balance">>, <<>>)
BadCsv == Unreadable("bad.csv")
StatementXlsx ==
    Sheet("my stmt.xlsx", <<"Txn Date", "Narration", "Withdrawal", "Deposit">>,
          <<<<"05-03-2024", "ATM", "1,200.50", "">>, <<"06-03-2024", "n", "0", "7">>>>)
BadXlsx == Unreadable("bad.xlsx")
ScanPng == Paged("scan.png", <<Page(EmptyText, <<>>, NumericText)>>)
NotesTxt == Paged("notes.txt", <<>>)
Unnamed == Paged("", <<>>)

\* the files handed to the parsers directly
Documents ==
    {IndianPdf, GenericPdf, NumericPdf, ProsePdf, IndianHeadedPdf, TablesPdf, ScanPdf,
     BlankPdf, ShortPdf, CorruptPdf, StatementCsv, ZeroCsv, GuessCsv, EmptyCsv, BadCsv,
     StatementXlsx, BadXlsx, ScanPng, NotesTxt}

\* the files posted to upload_statement, and the files a second request may post
\* while the first is in progress
Uploads ==
    {StatementCsv, EmptyCsv, BadCsv, StatementXlsx, BadXlsx, ScanPng, GenericPdf,
     CorruptPdf, NamelessPdf, NotesTxt, Unnamed}
Rivals == {OtherCsv, StatementXlsx}

-----------------------------------------------------------------------------
(* The state machine                                                       *)

MaxRuns == 2      \* calls of a parser on its file
MaxTicks == 1     \* days the clock advances
Today == Ordinal(2025, 11, 5)

Parsers == {"advanced", "enhanced", "free", "csv", "gemini"}

\* the files each parser is called on: parse_statement takes every file, the PDF
\* parsers the PDF files, parse_csv the CSV files
Accepts(parser, doc) ==
    IF parser = "advanced" THEN TRUE
    ELSE IF parser = "csv" THEN Lower(Suffix(doc.name)) = ".csv"
    ELSE Lower(Suffix(doc.name)) = ".pdf"

\* a file of UPLOAD_FOLDER: what was written, and the request that wrote it
Stored(doc, r) ==
    [name |-> doc.name, ok |-> doc.ok, pages |-> doc.pages, sheet |-> doc.sheet, by |-> r]

\* what a library reads at a path: a path that does not exist cannot be opened
FileAt(dir, path) == IF Exists(dir, path) THEN dir[path] ELSE Stored(Unreadable(path), 0)

NoFiles == [q \in {} |-> Unnamed]
NoFrame == [columns |-> <<>>, rows |-> <<>>]

\* a request of upload_statement: its position in the handler (pc), the file posted,
\* the locals filepath, df and transactions, and the response once it is sent; read
\* is the set of requests whose bytes its parser was given, after the set of
\* requests that were answered before it was received
Request(doc) ==
    [pc |-> "posted", file |-> doc, filepath |-> "", df |-> NoFrame, transactions |-> <<>>,
     response |-> NoResponse, read |-> {}, after |-> {}]

Answered == {q \in DOMAIN req : req[q].pc = "done"}

\* no call of the AI service in flight
Idle == [pc |-> "idle", answers |-> TRUE]

InitCall ==
    /\ entry \in Parsers
    /\ file \in Documents
    /\ Accepts(entry, file)
    /\ config \in Installations(entry)
    /\ result = <<>>
    /\ now = Today
    /\ folder = NoFiles
    /\ req = <<>>
    /\ wire = Idle
    /\ summary = <<>>

InitUpload ==
    /\ entry = "upload"
    /\ file \in Uploads
    /\ config = Installed
    /\ result = <<>>
    /\ now = Today
    /\ folder = NoFiles
    /\ \E second \in {file} \cup Rivals : req = <<Request(file), Request(second)>>
    /\ wire = Idle
    /\ summary = <<>>

Init == InitCall \/ InitUpload

\* AdvancedBankStatementParser().parse_statement(file)
ParseAdvanced ==
    /\ entry = "advanced"
    /\ Len(result) < MaxRuns
    /\ result' = Append(result, Adv_parse_statement(file, config))
    /\ UNCHANGED <<entry, file, config, now, folder, req, wire, summary>>

\* EnhancedPDFParser().parse_pdf(file)
Enh_result(r) == AdvResult(None, r.transactions, None, r.calls, FALSE)

ParseEnhanced ==
    /\ entry = "enhanced"
    /\ Len(result) < MaxRuns
    /\ \E ai \in AiResponses :
          result' = Append(result, Enh_result(Enh_parse_pdf(file, config, now, ai)))
    /\ UNCHANGED <<entry, file, config, now, folder, req, wire, summary>>

\* FreePDFParser().parse_pdf(file)
ParseFree ==
    /\ entry = "free"
    /\ Len(result) < MaxRuns
    /\ result' = Append(result, AdvResult(None, Free_parse_pdf(file, config), None, <<>>, FALSE))
    /\ UNCHANGED <<entry, file, config, now, folder, req, wire, summary>>

\* BankStatementParser().parse_csv(file)
ParseCsv ==
    /\ entry = "csv"
    /\ Len(result) < MaxRuns
    /\ result' = Append(result,
                        AdvResult(None, Csv_parse_csv(WriteFile(NoFiles, file.name, file),
                                                      file.name),
                                  None, <<>>, FALSE))
    /\ UNCHANGED <<entry, file, config, now, folder, req, wire, summary>>

\* parse_with_gemini(file, use_vision): the call of the service is recorded with the
\* number of entries it gave, -1 when it raised or gave no JSON
Gem_service(doc, env, ai, use_vision) ==
    IF ~Gem_is_available(env) THEN <<>>
    ELSE IF ~use_vision /\ TextStripLen(Gem_extract_text_from_pdf(doc, env)) < 50 THEN <<>>
    ELSE <<Call("service", IF ai.json THEN Len(ai.entries) ELSE -1)>>

ParseGemini ==
    /\ entry = "gemini"
    /\ Len(result) < MaxRuns
    /\ \E ai \in AiResponses : \E use_vision \in BOOLEAN :
          result' = Append(result,
                           AdvResult(None, parse_with_gemini(file, config, ai, use_vision),
                                     IF use_vision THEN "vision" ELSE "text",
                                     Gem_service(file, config, ai, use_vision), FALSE))
    /\ UNCHANGED <<entry, file, config, now, folder, req, wire, summary>>

\* a day passes
Tick ==
    /\ now < Today + MaxTicks
    /\ now' = now + 1
    /\ UNCHANGED <<entry, file, config, result, folder, req, wire, summary>>

\* The steps of upload_statement. Two requests run in two threads of the server, so
\* each access to UPLOAD_FOLDER is a step of its own.

Answer(r, response) ==
    [req EXCEPT ![r].pc = "done", ![r].response = response]

\* up to file.save(filepath) and ext = filename.rsplit('.', 1)[1], which raises
\* IndexError on a name without "."
UploadSave(r) ==
    /\ req[r].pc = "posted"
    /\ LET raw == req[r].file.name
           filename == secure_filename(raw)
           received == [req EXCEPT ![r].after = Answered]
       IN IF raw = ""
          THEN /\ req' = [received EXCEPT ![r].pc = "done",
                                         ![r].response = Response(400, "No file selected", {}, <<>>)]
               /\ UNCHANGED folder
          ELSE IF ~allowed_file(raw)
          THEN /\ req' = [received EXCEPT ![r].pc = "done",
                                         ![r].response = Response(400, "Invalid file type. Allowed: ",
                                                                  ALLOWED_EXTENSIONS, <<>>)]
               /\ UNCHANGED folder
          ELSE /\ folder' = WriteFile(folder, filename, Stored(req[r].file, r))
               /\ req' = IF LastDot(filename) = 0
                         THEN [received EXCEPT ![r].pc = "done", ![r].filepath = filename,
                                               ![r].response = ServerError]
                         ELSE [received EXCEPT ![r].pc = "saved", ![r].filepath = filename]
    /\ UNCHANGED <<entry, file, config, result, now, wire, summary>>

\* the branch on ext: parse_csv, read_excel, the sample data for an image, or parse_pdf
UploadParse(r) ==
    /\ req[r].pc = "saved"
    /\ LET filepath == req[r].filepath
           ext == Extension(filepath)
           stored == FileAt(folder, filepath)
           opened == [req EXCEPT ![r].read = IF Exists(folder, filepath) THEN {stored.by} ELSE {}]
       IN IF ext = "csv"
          THEN req' = [opened EXCEPT ![r].pc = "parsed",
                                     ![r].transactions = Csv_parse_csv(folder, filepath)]
          ELSE IF ext \in {"xlsx", "xls"}
          THEN req' = IF stored.ok
                      THEN [opened EXCEPT ![r].pc = "read", ![r].df = ReadSheet(stored.sheet)]
                      ELSE [opened EXCEPT ![r].pc = "done", ![r].response = ServerError]
          ELSE IF ext \in {"jpg", "jpeg", "png"}
          THEN req' = [req EXCEPT ![r].pc = "parsed",
                                  ![r].transactions = Enh_get_sample_transactions(now)]
          ELSE \E ai \in AiResponses :
                  req' = [opened EXCEPT ![r].pc = "parsed",
                                        ![r].transactions =
                                            Enh_parse_pdf(stored, config, now, ai).transactions]
    /\ UNCHANGED <<entry, file, config, result, now, folder, wire, summary>>

\* df.to_csv(csv_path, index=False)
UploadToCsv(r) ==
    /\ req[r].pc = "read"
    /\ LET csv_path == CsvPath(req[r].filepath) IN
       folder' = WriteFile(folder, csv_path, Stored(CsvFile(csv_path, req[r].df), r))
    /\ req' = [req EXCEPT ![r].pc = "written"]
    /\ UNCHANGED <<entry, file, config, result, now, wire, summary>>

\* statement_parser.parse_csv(csv_path)
UploadParseCsv(r) ==
    /\ req[r].pc = "written"
    /\ LET csv_path == CsvPath(req[r].filepath) IN
       req' = [req EXCEPT ![r].pc = "converted",
                          ![r].transactions = Csv_parse_csv(folder, csv_path),
                          ![r].read = IF Exists(folder, csv_path)
                                      THEN @ \cup {folder[csv_path].by} ELSE @]
    /\ UNCHANGED <<entry, file, config, result, now, folder, wire, summary>>

\* os.remove(csv_path), which raises on a path that is gone
UploadRemoveCsv(r) ==
    /\ req[r].pc = "converted"
    /\ LET csv_path == CsvPath(req[r].filepath) IN
       IF Exists(folder, csv_path)
       THEN /\ folder' = RemoveFile(folder, csv_path)
            /\ req' = [req EXCEPT ![r].pc = "parsed"]
       ELSE /\ req' = Answer(r, ServerError)
            /\ UNCHANGED folder
    /\ UNCHANGED <<entry, file, config, result, now, wire, summary>>

\* os.remove(filepath), then the response
UploadRemove(r) ==
    /\ req[r].pc = "parsed"
    /\ IF Exists(folder, req[r].filepath)
       THEN /\ folder' = RemoveFile(folder, req[r].filepath)
            /\ req' = Answer(r, UploadResponse(req[r].transactions))
       ELSE /\ req' = Answer(r, ServerError)
            /\ UNCHANGED folder
    /\ UNCHANGED <<entry, file, config, result, now, wire, summary>>

\* upload_statement, step by step, for the requests in progress
Next ==
    \/ ParseAdvanced
    \/ ParseEnhanced
    \/ ParseFree
    \/ ParseCsv
    \/ ParseGemini
    \/ Tick
    \/ \E r \in DOMAIN req : UploadSave(r)
    \/ \E r \in DOMAIN req : UploadParse(r)
    \/ \E r \in DOMAIN req : UploadToCsv(r)
    \/ \E r \in DOMAIN req : UploadParseCsv(r)
    \/ \E r \in DOMAIN req : UploadRemoveCsv(r)
    \/ \E r \in DOMAIN req : UploadRemove(r)

Spec == Init /\ [][Next]_vars

-----------------------------------------------------------------------------
(* EnhancedPDFParser.parse_pdf with the call of the AI service as a step   *)

\* does the parse reach self.model.generate_content(prompt)? The AI parser is tried
\* and has 50 characters of text or more
Enh_calls_service(doc, env, clock) ==
    /\ \E j \in DOMAIN Enh_parse_pdf(doc, env, clock, [json |-> FALSE, entries |-> <<>>]).calls :
           Enh_parse_pdf(doc, env, clock, [json |-> FALSE, entries |-> <<>>]).calls[j].strategy
               = "gemini"
    /\ TextStripLen(Gem_extract_text_from_pdf(doc, env)) >= 50

InitAi ==
    /\ entry = "enhanced"
    /\ file \in {d \in Documents : Accepts("enhanced", d)}
    /\ config \in Installations("enhanced")
    /\ result = <<>>
    /\ now = Today
    /\ folder = NoFiles
    /\ req = <<>>
    /\ wire \in {[pc |-> "idle", answers |-> a] : a \in BOOLEAN}
    /\ summary = <<>>

\* the parse has not reached the call of the service
Enh_before_call == wire.pc = "idle"

\* response = self.model.generate_content(prompt) returns or raises: the service has
\* answered. The call passes no timeout, so nothing else ends it
Gem_call_ends == wire.pc = "calling" /\ wire.answers

\* parse_pdf up to the call of the service, or to its return when the service is
\* not called
AiBegin ==
    /\ Enh_before_call
    /\ IF Enh_calls_service(file, config, now)
       THEN /\ wire' = [wire EXCEPT !.pc = "calling"]
            /\ UNCHANGED result
       ELSE /\ wire' = [wire EXCEPT !.pc = "done"]
            /\ result' = Append(result, Enh_result(Enh_parse_pdf(file, config, now,
                                                    [json |-> FALSE, entries |-> <<>>])))
    /\ UNCHANGED <<entry, file, config, now, folder, req, summary>>

\* generate_content returns or raises, and parse_pdf goes on to its return
AiAnswer ==
    /\ Gem_call_ends
    /\ \E ai \in AiResponses :
          result' = Append(result, Enh_result(Enh_parse_pdf(file, config, now, ai)))
    /\ wire' = [wire EXCEPT !.pc = "done"]
    /\ UNCHANGED <<entry, file, config, now, folder, req, summary>>

NextAi == AiBegin \/ AiAnswer

SpecAi == InitAi /\ [][NextAi]_vars

-----------------------------------------------------------------------------
(* The extractors on one text, one table, one frame                        *)

\* the lines the extractors are given: the scenario line, lines with the date as a
\* month name, a line with a numeric date first, a line that is no transaction, a line
\* of more than 200 characters, a line of which only the date and the amounts exist
Filler == "ABCDEFGHIJ KLMNOPQRST UVWXYZABCD EFGHIJKLMN OPQRSTUVWX "

ScenarioLine == "UPI-SWIGGY-FOOD ORDER ₹450.00 10/02/2024"

Lines ==
    {ScenarioLine,
     "10 Oct 2025 UPI/528312345/SWIGGY INR 450.00",
     "12 Oct 2025 salary credit ACME Rs.75,000.00 done",
     "12/03/2024 ATM CASH WITHDRAWAL 5000.00",
     "Opening balance brought forward, no entries",
     "14 Oct 2025 NEFT " \o Filler \o Filler \o Filler \o Filler \o "INR 120.00",
     "15 Oct 2025 INR 300.00 INR 900.00",
     "12/03/2024 NEFT TRANSFER 9,000.00 300.00",
     "12/03/2024 NEFT DESCRIPTION 300.00",
     "16 Oct 2025 CREDIT REVERSAL DEBIT INR 250.00"}

TextDoc(lines) == Paged("text.pdf", <<Page(lines, <<>>, lines)>>)

Texts == {TextDoc(<<a>>) : a \in Lines} \cup {TextDoc(<<a, b>>) : a, b \in Lines}

\* the rows under the header Date, Description, Debit, Credit, Balance: the scenario
\* row, a debit, a description that is a cheque number, no description, a description
\* of more than 200 characters, no amount
ScenarioRow == <<"01/03/2024", "Salary Credit", "", "75000.00", "75000.00">>

Rows ==
    {ScenarioRow,
     <<"05/03/2024", "UPI SWIGGY", "450.00", "", "74550.00">>,
     <<"06/03/2024", "9876", "450.00", "", "74100.00">>,
     <<"07/03/2024", "", "100.00", "", "74000.00">>,
     <<"08/03/2024", Filler \o Filler \o Filler \o Filler, "10.00", "", "73990.00">>,
     <<"09/03/2024", "Balance", "0.00", "0.00", "73990.00">>}

RowSets == {<<a>> : a \in Rows} \cup {<<a, b>> : a, b \in Rows}

\* a page with one table, as page.extract_tables() gives it: every cell a string
TableOf(rows) ==
    <<TableHeader>> \o [i \in 1..Len(rows) |-> [j \in 1..Len(rows[i]) |-> StrCell(rows[i][j])]]

TableDoc(rows) == Paged("table.pdf", <<Page(<<"Account statement">>, <<TableOf(rows)>>, EmptyText)>>)

SheetDoc(rows) ==
    Sheet("rows.csv", <<"Date", "Description", "Debit", "Credit", "Balance">>, rows)

\* a statement of two pages: a table and a table of its header alone on the first,
\* a table on the second
TablesDoc(first, second) ==
    Paged("tables.pdf",
          <<Page(<<"Account statement">>, <<TableOf(<<first>>), <<TableHeader>>>>, EmptyText),
            Page(<<"Page 2">>, <<TableOf(<<second>>)>>, EmptyText)>>)

TablesDocs == {TablesDoc(a, b) : a, b \in Rows}

\* what each extractor is given
Units(parser) ==
    IF parser = "advanced" THEN Texts \cup {TableDoc(rows) : rows \in RowSets} \cup TablesDocs
    ELSE IF parser = "csv" THEN {SheetDoc(rows) : rows \in RowSets}
    ELSE Texts

InitExtract ==
    /\ entry \in {"advanced", "enhanced", "free", "csv"}
    /\ file \in Units(entry)
    /\ config = Installed
    /\ result = <<>>
    /\ now = Today
    /\ folder = NoFiles
    /\ req = <<>>
    /\ wire = Idle
    /\ summary = <<>>

\* _parse_pdf_with_pdfplumber: the tables of the page, else the regex pass over its text
Adv_plumber_outcome(r) ==
    AdvResult(IF r.raised THEN "raised" ELSE None, r.txns, "pdfplumber", r.calls, FALSE)

ExtractPlumber ==
    /\ entry = "advanced"
    /\ result = <<>>
    /\ result' = <<Adv_plumber_outcome(Adv_parse_pdf_with_pdfplumber(file))>>
    /\ UNCHANGED <<entry, file, config, now, folder, req, wire, summary>>

\* _parse_transactions_from_text: an exception of _extract_transaction_from_line
\* leaves the loop and the method
Enh_text_outcome(r) ==
    AdvResult(IF r.err THEN "raised" ELSE None, r.txns, "generic", <<>>, FALSE)

ExtractEnhanced ==
    /\ entry = "enhanced"
    /\ result = <<>>
    /\ result' = <<Enh_text_outcome(Enh_parse_transactions_from_text(file.pages[1].text))>>
    /\ UNCHANGED <<entry, file, config, now, folder, req, wire, summary>>

\* the loop over the lines in FreePDFParser.parse_pdf
ExtractFree ==
    /\ entry = "free"
    /\ result = <<>>
    /\ result' = <<AdvResult(None, Free_parse_lines(file.pages[1].ocr, 1), "ocr", <<>>, FALSE)>>
    /\ UNCHANGED <<entry, file, config, now, folder, req, wire, summary>>

\* parse_csv from the DataFrame on
ExtractCsv ==
    /\ entry = "csv"
    /\ result = <<>>
    /\ result' = <<AdvResult(None, Csv_parse_frame(ReadSheet(file.sheet)), "csv", <<>>, FALSE)>>
    /\ UNCHANGED <<entry, file, config, now, folder, req, wire, summary>>

NextExtract == ExtractPlumber \/ ExtractEnhanced \/ ExtractFree \/ ExtractCsv

SpecExtract == InitExtract /\ [][NextExtract]_vars

-----------------------------------------------------------------------------
(* The summaries: get_statement_summary and the summary of upload_statement *)

\* datetime.strftime for the two formats the summaries use; %Y is the year as the C
\* library writes it, without leading zeros
YearOf(date) ==
    CHOOSE y \in 1..9999 : Ordinal(y, 1, 1) <= date /\ date < Ordinal(y + 1, 1, 1)

MonthOf(date, y) ==
    CHOOSE mo \in 1..12 :
        /\ Ordinal(y, mo, 1) <= date
        /\ (mo = 12 \/ date < Ordinal(y, mo + 1, 1))

TwoDigits(n) == IF n < 10 THEN "0" \o ToString(n) ELSE ToString(n)

StrftimeParts(y, mo, d, fmt) ==
    IF fmt = "%d/%m/%Y" THEN TwoDigits(d) \o "/" \o TwoDigits(mo) \o "/" \o ToString(y)
    ELSE ToString(y) \o "-" \o TwoDigits(mo) \o "-" \o TwoDigits(d)

StrftimeIn(date, y, mo, fmt) == StrftimeParts(y, mo, date - Ordinal(y, mo, 1) + 1, fmt)

Strftime(date, fmt) == StrftimeIn(date, YearOf(date), MonthOf(date, YearOf(date)), fmt)

\* sum(t['amount'] for t in transactions if t['type'] == type)
RECURSIVE SumOfType(_, _, _)
SumOfType(transactions, k, type) ==
    IF k > Len(transactions) THEN 0
    ELSE (IF transactions[k].type = type THEN transactions[k].amount ELSE 0)
         + SumOfType(transactions, k + 1, type)

\* the loop that fills category_breakdown; a record without the key counts as 'others'
Adv_category_of(t) == IF t.category = NoCategory THEN "others" ELSE t.category

Adv_counted(breakdown, category, amount) ==
    IF category \in DOMAIN breakdown
    THEN [breakdown EXCEPT ![category] = [count |-> @.count + 1, amount |-> @.amount + amount]]
    ELSE breakdown @@ (category :> [count |-> 1, amount |-> amount])

RECURSIVE Adv_category_breakdown(_, _, _)
Adv_category_breakdown(transactions, k, breakdown) ==
    IF k > Len(transactions) THEN breakdown
    ELSE Adv_category_breakdown(transactions, k + 1,
             Adv_counted(breakdown, Adv_category_of(transactions[k]), transactions[k].amount))

\* min() and max() of the dates of a non-empty list
MinDate_first(transactions) == transactions[1].date

MinDate(transactions) ==
    CHOOSE d \in {transactions[k].date : k \in 1..Len(transactions)} :
        \A k \in 1..Len(transactions) : d <= transactions[k].date

MaxDate(transactions) ==
    CHOOSE d \in {transactions[k].date : k \in 1..Len(transactions)} :
        \A k \in 1..Len(transactions) : transactions[k].date <= d

\* get_statement_summary; a record without the 'bank' key counts as 'Unknown'
Adv_bank_of(t) == IF t.bank = NoBank THEN "Unknown" ELSE t.bank

Adv_get_statement_summary(transactions) ==
    IF transactions = <<>> THEN [error |-> "No transactions found"]
    ELSE [total_transactions |-> Len(transactions),
          total_credits |-> SumOfType(transactions, 1, "credit"),
          total_debits |-> SumOfType(transactions, 1, "debit"),
          net_amount |-> SumOfType(transactions, 1, "credit")
                         - SumOfType(transactions, 1, "debit"),
          date_range |-> [start |-> Strftime(MinDate(transactions), "%d/%m/%Y"),
                          end |-> Strftime(MaxDate(transactions), "%d/%m/%Y")],
          category_breakdown |-> Adv_category_breakdown(transactions, 1, <<>>),
          banks |-> {Adv_bank_of(transactions[k]) : k \in 1..Len(transactions)}]

\* the 'summary' of the response of upload_statement, computed of a non-empty list
Api_summary(transactions) ==
    [total_credits |-> SumOfType(transactions, 1, "credit"),
     total_debits |-> SumOfType(transactions, 1, "debit"),
     net_balance |-> SumOfType(transactions, 1, "credit")
                     - SumOfType(transactions, 1, "debit"),
     date_range |-> [start |-> Strftime(MinDate(transactions), "%Y-%m-%d"),
                     end |-> Strftime(MaxDate(transactions), "%Y-%m-%d")]]

\* the records the summaries are computed of: records of parse_statement, which all
\* have a bank (None when none was detected) and a category, and for upload_statement
\* also a record of the samples, which has no bank
SummaryPool ==
    {Txn(Ordinal(2024, 3, 1), 7500000, "credit", "HDFC", "table", "Salary Credit", "salary"),
     Txn(Ordinal(2024, 2, 29), 45000, "debit", "HDFC", "table", "UPI SWIGGY", "food_dining"),
     Txn(Ordinal(2024, 2, 29), 45000, "debit", "SBI", "regex", "UPI SWIGGY", "food_dining"),
     Txn(Ordinal(2025, 12, 31), 10, "debit", None, "table", "", "others"),
     Txn(Ordinal(2024, 3, 1), 1250, "credit", NoBank, "sample", "REFUND", "others"),
     Txn(Ordinal(2025, 12, 31), 999, "credit", "SBI", "table", "Interest", "bank_charges")}

MaxList == 3      \* transactions in a list to summarise

RECURSIVE ListsOf(_)
ListsOf(n) ==
    IF n = 0 THEN {<<>>}
    ELSE ListsOf(n - 1)
         \cup {Append(l, t) : l \in {x \in ListsOf(n - 1) : Len(x) = n - 1}, t \in SummaryPool}

InitSummary ==
    /\ entry \in {"advanced", "upload"}
    /\ file = Unnamed
    /\ config = Installed
    /\ \E l \in ListsOf(MaxList) :
          /\ entry = "upload" => l # <<>>
          /\ entry = "advanced" => \A k \in 1..Len(l) : l[k].bank # NoBank
          /\ result = <<AdvResult(None, l, None, <<>>, FALSE)>>
    /\ now = Today
    /\ folder = NoFiles
    /\ req = <<>>
    /\ wire = Idle
    /\ summary = <<>>

\* parser.get_statement_summary(transactions)
Summarize ==
    /\ entry = "advanced"
    /\ summary = <<>>
    /\ summary' = <<Adv_get_statement_summary(result[1].transactions)>>
    /\ UNCHANGED <<entry, file, config, result, now, folder, req, wire>>

\* upload_statement from "# Calculate summary" on
SummarizeUpload ==
    /\ entry = "upload"
    /\ summary = <<>>
    /\ summary' = <<Api_summary(result[1].transactions)>>
    /\ UNCHANGED <<entry, file, config, result, now, folder, req, wire>>

NextSummary == Summarize \/ SummarizeUpload

SpecSummary == InitSummary /\ [][NextSummary]_vars

-----------------------------------------------------------------------------
(* statement_api: import_transactions, and the AI validation on its own    *)

\* models.py: the attributes of the mapped classes (the columns, and the backref
\* of User.incomes and User.expenses)
Income_attributes ==
    {"id", "user_id", "source", "amount", "frequency", "date", "created_at", "user"}
Expense_attributes ==
    {"id", "user_id", "category", "description", "amount", "date", "is_recurring",
     "frequency", "created_at", "user"}

\* the keywords of Income(...) and of Expense(...) in import_transactions
Income_keywords == {"user_id", "source", "amount", "frequency", "date", "category", "notes"}
Expense_keywords ==
    {"user_id", "category", "description", "amount", "date", "is_recurring", "notes"}

\* the constructor of a mapped class takes a keyword only if the class has the
\* attribute, and raises TypeError otherwise
Constructs(attributes, keywords) == keywords \subseteq attributes

\* an entry of errors: "Transaction {i+1}: ..." (i is 0 for the message that is
\* of no transaction)
ImportError(i, why) == [txn |-> i, why |-> why]

\* a committed row of the income or the expense table
Row(table, txn, txn_date, amount) ==
    [table |-> table, date |-> txn_date, amount |-> amount,
     description |-> Truncated(txn.description),
     category |-> IF table = "income" THEN NoCategory
                  ELSE IF txn.category = NoCategory THEN "other" ELSE txn.category]

Api_failed(acc, i, why) == [acc EXCEPT !.errors = Append(@, ImportError(i, why))]

\* db.session.add(...) and db.session.commit() of transaction i, which the
\* database accepts, or refuses (and the commit raises)
Api_commit(acc, i, row, commits) ==
    IF commits
    THEN [acc EXCEPT !.rows = Append(@, row), !.imported = @ + 1]
    ELSE [Api_failed(acc, i, "exception") EXCEPT !.refused = @ \cup {i}]

\* the body of the loop of import_transactions for transaction i
Api_import_txn(acc, txn, i, txn_date, amount, commits) ==
    IF ~txn.fields THEN Api_failed(acc, i, "missing fields")
    ELSE IF txn_date = NoDate THEN Api_failed(acc, i, "date")
    ELSE IF ~amount.ok THEN Api_failed(acc, i, "amount format")
    ELSE IF NotPositive(amount.v) THEN Api_failed(acc, i, "amount")
    ELSE IF txn.type = "credit"
    THEN (IF Constructs(Income_attributes, Income_keywords)
          THEN Api_commit(acc, i, Row("income", txn, txn_date, amount.v), commits)
          ELSE Api_failed(acc, i, "exception"))
    ELSE (IF Constructs(Expense_attributes, Expense_keywords)
          THEN Api_commit(acc, i, Row("expense", txn, txn_date, amount.v), commits)
          ELSE Api_failed(acc, i, "exception"))

RECURSIVE Api_import_from(_, _, _, _)
Api_import_from(transactions, i, failing, acc) ==
    IF i > Len(transactions) THEN acc
    ELSE Api_import_from(transactions, i + 1, failing,
                         Api_import_txn(acc, transactions[i], i,
                                        Strptime(transactions[i].date, "%Y-%m-%d"),
                                        JsonFloat(transactions[i].amount),
                                        i \notin failing))

\* the response: the status, the keys of the body, and what they carry
ImportResponse(status, success, keys, imported, total_received, errors) ==
    [status |-> status, success |-> success, keys |-> keys, imported |-> imported,
     total_received |-> total_received, errors |-> errors]

Api_import_done(rows, acc, total_received) ==
    [rows |-> acc.rows, refused |-> acc.refused,
     response |-> ImportResponse(200, TRUE,
                     {"success", "message", "imported", "total_received"}
                     \cup (IF acc.errors # <<>> THEN {"error_count", "errors"} ELSE {}),
                     acc.imported, total_received, acc.errors)]

\* import_transactions: db is the database (whether it has a user, the rows of its
\* income and expense tables, and the transactions of the request whose commit it
\* refused), failing the transactions whose commit it would refuse
Api_import_transactions(db, request, failing) ==
    IF ~request.is_json
    THEN [rows |-> db.rows, refused |-> {},
          response |-> ImportResponse(400, FALSE, {"success", "error"}, 0, 0, <<>>)]
    ELSE IF request.transactions = <<>>
    THEN [rows |-> db.rows, refused |-> {},
          response |-> ImportResponse(400, FALSE, {"success", "error", "imported", "errors"},
                                      0, 0, <<>>)]
    ELSE IF ~db.user
    THEN [rows |-> db.rows, refused |-> {},
          response |-> ImportResponse(404, FALSE, {"success", "error", "imported", "errors"},
                                      0, 0, <<ImportError(0, "no user")>>)]
    ELSE Api_import_done(db.rows,
                         Api_import_from(request.transactions, 1, failing,
                                         [rows |-> db.rows, refused |-> {}, imported |-> 0,
                                          errors |-> <<>>]),
                         Len(request.transactions))

\* the entries a client, or the AI service, sends: the three of test_system.py and
\* test_import.py, and entries that each fail one check
EntryPool ==
    {AiEntry(TRUE, "2025-10-31", "Test Salary Credit", "50000.0", "credit", "salary"),
     AiEntry(TRUE, "2025-11-02", "Test Grocery Shopping", "2500.0", "debit", "groceries"),
     AiEntry(FALSE, "2025-10-11", "", "1", "debit", NoCategory),
     AiEntry(TRUE, "11/10/2025", "NEFT-RENT", "1", "debit", "utilities"),
     AiEntry(TRUE, "2025-10-13", "REFUND", "0", "credit", "others"),
     AiEntry(TRUE, "2025-10-14", "REFUND", "12,50", "credit", "others"),
     AiEntry(TRUE, "2025-10-15", "ATM WDL", "nan", "debit", NoCategory),
     AiEntry(TRUE, "2025-10-16", "EMI HDFC", "12.50", "transfer", "others")}

MaxEntries == 3      \* entries in a request or a response

RECURSIVE EntryLists(_)
EntryLists(n) ==
    IF n = 0 THEN {<<>>}
    ELSE EntryLists(n - 1)
         \cup {Append(l, t) : l \in {x \in EntryLists(n - 1) : Len(x) = n - 1}, t \in EntryPool}

JsonRequest(is_json, transactions) == [is_json |-> is_json, transactions |-> transactions]

Database(user, rows) == [user |-> user, rows |-> rows, refused |-> {}]

InitEntries ==
    /\ entry \in {"import", "gemini", "vision"}
    /\ file = Unnamed
    /\ config = Installed
    /\ result = <<>>
    /\ now = Today
    /\ \E user \in BOOLEAN : /\ entry # "import" => user
                             /\ folder = Database(user, <<>>)
    /\ \E is_json \in BOOLEAN, l \in EntryLists(MaxEntries) :
          /\ entry # "import" => is_json
          /\ req = JsonRequest(is_json, l)
    /\ wire = Idle
    /\ summary = <<>>

ImportEnds(out) ==
    /\ result' = <<out.response>>
    /\ folder' = [folder EXCEPT !.rows = out.rows, !.refused = out.refused]

\* POST /statement/import
ImportTransactions ==
    /\ entry = "import"
    /\ result = <<>>
    /\ \E failing \in SUBSET (1..Len(req.transactions)) :
          ImportEnds(Api_import_transactions(folder, req, failing))
    /\ UNCHANGED <<entry, file, config, now, req, wire, summary>>

\* _extract_with_gemini on a response that is the JSON array of the entries
ValidateText ==
    /\ entry = "gemini"
    /\ result = <<>>
    /\ result' = <<Gem_extract_with_gemini([json |-> TRUE, entries |-> req.transactions])>>
    /\ UNCHANGED <<entry, file, config, now, folder, req, wire, summary>>

\* parse_with_image on such a response
ValidateImage ==
    /\ entry = "vision"
    /\ result = <<>>
    /\ result' = <<Gem_parse_with_image(config, [json |-> TRUE, entries |-> req.transactions])>>
    /\ UNCHANGED <<entry, file, config, now, folder, req, wire, summary>>

NextEntries == ImportTransactions \/ ValidateText \/ ValidateImage

SpecEntries == InitEntries /\ [][NextEntries]_vars

-----------------------------------------------------------------------------
(* detect_bank and _categorize_transaction on a sample                     *)

\* samples of the text of a statement: no bank, one bank, two banks, in the
\* spellings statements use
BankNames ==
    {"HDFC Bank", "hdfc  bank", "ICICI BANK", "State Bank of India", "sbi", "Axis Bank",
     "Kotak Mahindra Bank", "kotak", "Canara Bank", ""}

BankSamples == {"Statement of account " \o a \o " " \o b : a, b \in BankNames}

DescriptionSamples ==
    {"UPI SWIGGY FOOD ORDER", "upi-zomato", "NEFT RENT", "Salary Credit", "ATM WDL 22",
     "Amazon Prime Video", "AMAZON PAY", "cheque 9876", "", "DMart", "upi cafe coffee day",
     "EMI HDFC LOAN", "HP PETROL PUMP", "Uber trip", "Electricity bill", "Apollo pharmacy",
     "IMPS TRANSFER TO SELF", "Interest credited", "Mutual Fund SIP", "Big Bazaar",
     "School fee", "withdrawal at hotel", "Dividend", "xyz"}

InitLabels ==
    /\ \/ entry \in {"advanced.detect_bank", "csv.detect_bank"} /\ req \in BankSamples
       \/ /\ entry \in {"advanced.categorize", "csv.categorize", "enhanced.categorize"}
          /\ req \in DescriptionSamples
    /\ file = Unnamed
    /\ config = Installed
    /\ result = <<>>
    /\ now = Today
    /\ folder = NoFiles
    /\ wire = Idle
    /\ summary = <<>>

\* AdvancedBankStatementParser.detect_bank(text)
DetectAdvanced ==
    /\ entry = "advanced.detect_bank"
    /\ result = <<>>
    /\ result' = <<Adv_detect_bank(req)>>
    /\ UNCHANGED <<entry, file, config, now, folder, req, wire, summary>>

\* BankStatementParser.detect_bank(text)
DetectCsv ==
    /\ entry = "csv.detect_bank"
    /\ result = <<>>
    /\ result' = <<Csv_detect_bank(req)>>
    /\ UNCHANGED <<entry, file, config, now, folder, req, wire, summary>>

\* AdvancedBankStatementParser._categorize_transaction(description)
CategorizeAdvanced ==
    /\ entry = "advanced.categorize"
    /\ result = <<>>
    /\ result' = <<Adv_categorize_transaction(req)>>
    /\ UNCHANGED <<entry, file, config, now, folder, req, wire, summary>>

\* BankStatementParser._categorize_transaction(description)
CategorizeCsv ==
    /\ entry = "csv.categorize"
    /\ result = <<>>
    /\ result' = <<Csv_categorize_transaction(req)>>
    /\ UNCHANGED <<entry, file, config, now, folder, req, wire, summary>>

\* EnhancedPDFParser._categorize_transaction(description)
CategorizeEnhanced ==
    /\ entry = "enhanced.categorize"
    /\ result = <<>>
    /\ result' = <<Enh_categorize_transaction(req)>>
    /\ UNCHANGED <<entry, file, config, now, folder, req, wire, summary>>

NextLabels ==
    DetectAdvanced \/ DetectCsv \/ CategorizeAdvanced \/ CategorizeCsv \/ CategorizeEnhanced

SpecLabels == InitLabels /\ [][NextLabels]_vars

-----------------------------------------------------------------------------
(* The OCR of a scanned PDF, page by page                                  *)

MaxPages == 3

\* what OCR reads on the image of a page: a statement line and two lines of other text,
\* nothing, or an exception of image_to_string
ScannedText(line) == <<line, Filler, Filler>>

ScannedPages ==
    {Page(EmptyText, <<>>, ScannedText(line)) :
        line \in {"12/03/2024 ATM CASH WITHDRAWAL 5000.00", "12/03/2024 NEFT TRANSFER 9,000.00 300.00"}}
        \cup {Page(EmptyText, <<>>, EmptyText),
              Unrecognized(Page(EmptyText, <<>>, EmptyText))}

ScannedDocs ==
    UNION {{Paged("scan.pdf", pages) : pages \in [1..n -> ScannedPages]} : n \in 1..MaxPages}

InitOcr ==
    /\ entry \in {"free", "advanced"}
    /\ file \in ScannedDocs
    /\ config \in {Installed, Without("tesseract")}
    /\ result = <<>>
    /\ now = 0
    /\ folder = <<>>
    /\ req = None
    /\ wire = <<>>
    /\ summary = None

\* FreePDFParser.parse_pdf on the scan, with the text buffer it parsed
OcrFree ==
    /\ entry = "free"
    /\ result = <<>>
    /\ result' = <<[text |-> Free_extract_text_from_pdf(file, config),
                    transactions |-> Free_parse_pdf(file, config)]>>
    /\ UNCHANGED <<entry, file, config, now, folder, req, wire, summary>>

\* AdvancedBankStatementParser._parse_pdf_with_ocr on the scan
OcrAdvanced ==
    /\ entry = "advanced"
    /\ result = <<>>
    /\ result' = <<[transactions |-> Adv_parse_pdf_with_ocr(file, config).txns]>>
    /\ UNCHANGED <<entry, file, config, now, folder, req, wire, summary>>

NextOcr == OcrFree \/ OcrAdvanced

SpecOcr == InitOcr /\ [][NextOcr]_vars

-----------------------------------------------------------------------------
(* IndianBankParser on the lines of a statement                            *)

MaxLines == 4

\* lines of an Indian Bank statement: the heading of the transactions, the header of
\* the table, two transactions, an empty line
StatementLines ==
    {"Account Activity",
     "Date Transaction Details Balance",
     "10 Oct 2025 UPI - INR 4.50 INR 50.00",
     "11 Oct 2025 PAY + INR 9.00 INR 59.00",
     ""}

\* transaction lines with one to four amounts, some of them zero
AmountLines ==
    {"11 Oct 2025 NEFT ACME SALARY INR 100.00 INR 75,000.00 INR 80,000.00",
     "12 Oct 2025 ATM CASH INR 2,000.00 INR 1.00 INR 3,000.00",
     "13 Oct 2025 ATM CASH INR 2,000.00 INR 0.00 INR 3,000.00",
     "13 Oct 2025 INTEREST INR 0.00 INR 20.00 INR 3,020.00",
     "10 Oct 2025 UPI/528312345/SWIGGY - INR 450.00 INR 5,000.00",
     "14 Oct 2025 REFUND + INR 450.00 INR 5,450.00",
     "15 Oct 2025 BALANCE INR 5,450.00",
     "16 Oct 2025 CHARGES INR 1.00 INR 2.00 INR 3.00 INR 4.00"}

StatementTexts == UNION {[1..n -> StatementLines] : n \in 0..MaxLines}

InitIndian ==
    /\ \/ entry = "parse_text" /\ req \in StatementTexts
       \/ entry = "parse_transaction_line" /\ req \in AmountLines
    /\ file = None
    /\ config = Installed
    /\ result = <<>>
    /\ now = 0
    /\ folder = <<>>
    /\ wire = <<>>
    /\ summary = None

\* IndianBankParser.parse_text
ParseText ==
    /\ entry = "parse_text"
    /\ result = <<>>
    /\ result' = <<Ind_parse_text(req)>>
    /\ UNCHANGED <<entry, file, config, now, folder, req, wire, summary>>

\* IndianBankParser._parse_transaction_line
ParseTransactionLine ==
    /\ entry = "parse_transaction_line"
    /\ result = <<>>
    /\ result' = <<Ind_parse_transaction_line(req)>>
    /\ UNCHANGED <<entry, file, config, now, folder, req, wire, summary>>

NextIndian == ParseText \/ ParseTransactionLine

SpecIndian == InitIndian /\ [][NextIndian]_vars

-----------------------------------------------------------------------------
(* The properties                                                          *)

\* the strategies of the two fallback chains, in the order of the code
AdvChain == <<"tables", "regex", "camelot", "ocr">>
EnhChain == <<"indian", "generic", "gemini">>

Rank(strategy) ==
    IF \E i \in DOMAIN AdvChain : AdvChain[i] = strategy
    THEN CHOOSE i \in DOMAIN AdvChain : AdvChain[i] = strategy
    ELSE IF \E i \in DOMAIN EnhChain : EnhChain[i] = strategy
    THEN CHOOSE i \in DOMAIN EnhChain : EnhChain[i] = strategy
    ELSE 0

\* the strategies of one parse were invoked in chain order, each after strategies
\* that all returned zero transactions
InChainOrder(calls) ==
    \A j \in DOMAIN calls : \A i \in 1..(j - 1) :
        calls[i].count = 0 /\ Rank(calls[i].strategy) < Rank(calls[j].strategy)

IsPdfName(name) == Lower(Suffix(name)) = ".pdf"

\* C1: in every PDF parse a strategy of the fallback chain is invoked only after
\* every strategy invoked before it returned zero transactions, the strategies are
\* invoked in the order of the chain, and nothing is invoked after a strategy that
\* returned transactions.
C1_FallbackChainInOrder ==
    \A k \in DOMAIN result : IsPdfName(file.name) => InChainOrder(result[k].calls)

\* C1 happens: a parse of a PDF went through tables, camelot and OCR, and OCR, the
\* last strategy invoked, returned transactions
C1_ChainReachedOcr ==
    \E k \in DOMAIN result :
        /\ entry = "advanced" /\ IsPdfName(file.name)
        /\ Len(result[k].calls) >= 3
        /\ result[k].calls[Len(result[k].calls)] = Call("ocr", Len(result[k].transactions))
        /\ result[k].transactions # <<>>

\* the transactions the upload handler has handed out or is about to
Handled(r) == req[r].transactions \o req[r].response.transactions

IsSample(t) == t.src = "sample"

\* C2: no transaction returned by EnhancedPDFParser.parse_pdf or by upload_statement
\* is a synthesized record: what is returned was extracted from the file, and a
\* parse that extracts nothing returns the empty list.
C2_NeverFabricates ==
    /\ entry = "enhanced" =>
          \A k \in DOMAIN result : \A i \in DOMAIN result[k].transactions :
              ~IsSample(result[k].transactions[i])
    /\ \A r \in DOMAIN req : \A i \in DOMAIN Handled(r) : ~IsSample(Handled(r)[i])

IsCanonical(t) == t.date # NoDate /\ t.amount > 0 /\ t.type \in {"credit", "debit"}

\* C3: every transaction a parser returns has a date, an amount greater than zero
\* and a type that is credit or debit.
C3_ReturnedAreCanonical ==
    \A k \in DOMAIN result : \A i \in DOMAIN result[k].transactions :
        IsCanonical(result[k].transactions[i])

\* C4: the parse of a PDF that cannot be read returns an error and an empty list of
\* transactions, from parse_statement and from EnhancedPDFParser.parse_pdf alike.
C4_UnreadablePdfFails ==
    \A k \in DOMAIN result :
        (entry \in {"advanced", "enhanced"} /\ IsPdfName(file.name) /\ ~file.ok)
        => result[k].error # None /\ result[k].transactions = <<>>

\* C5: the answer of upload_statement to a file that cannot be decoded differs from
\* its answer to a readable file with no transactions.
C5_UndecodableToldApart ==
    \A r \in DOMAIN req :
        (req[r].pc = "done" /\ req[r].file.name # "" /\ ~req[r].file.ok)
        => req[r].response # UploadResponse(<<>>)

\* a parse that did not consult the AI service
WithoutAi(res) == \A j \in DOMAIN res.calls : res.calls[j].strategy # "gemini"

\* C6: two runs on the same file return the same transactions: two calls of
\* EnhancedPDFParser.parse_pdf that do not consult the AI service, and two uploads of
\* the same file of which the second is received after the first was answered.
C6_SameFileSameTransactions ==
    /\ entry = "enhanced" =>
          \A k \in DOMAIN result : \A l \in DOMAIN result :
              (WithoutAi(result[k]) /\ WithoutAi(result[l]))
              => result[k].transactions = result[l].transactions
    /\ \A r \in DOMAIN req : \A q \in DOMAIN req :
          (/\ req[r].pc = "done" /\ req[q].pc = "done"
           /\ req[r].file = req[q].file /\ r \in req[q].after)
          => req[r].response.transactions = req[q].response.transactions

\* C7: once upload_statement has answered a request that saved its upload, no file
\* the request wrote is left in UPLOAD_FOLDER; and _parse_pdf_with_ocr leaves no
\* document open.
C7_ArtifactsReleased ==
    /\ \A r \in DOMAIN req :
          (req[r].pc = "done" /\ req[r].filepath # "")
          => \A p \in DOMAIN folder : folder[p].by # r
    /\ entry = "advanced" => \A k \in DOMAIN result : ~result[k].open

\* a request that has written a file and has not been answered is using it
Using(r, p) == req[r].pc # "done" /\ Exists(folder, p) /\ folder[p].by = r

\* a step of another request leaves the file as it is
Untouched(r) ==
    \A p \in DOMAIN folder :
        (Using(r, p) /\ req'[r] = req[r]) => (Exists(folder', p) /\ folder'[p] = folder[p])

\* C8: of two requests in progress each parses the bytes it uploaded only, and
\* neither overwrites nor deletes a file the other is using.
C8_RequestsIsolated ==
    /\ [](\A r \in DOMAIN req : req[r].read \subseteq {r})
    /\ [][\A r \in DOMAIN req : Untouched(r)]_vars

\* the text of an error response names the extension
Carries(error, listing, extension) == Contains(error, extension) \/ extension \in listing

\* C9: a file of an unsupported kind is refused with an error that carries its
\* extension, with no transactions and no strategy invoked, by parse_statement and by
\* upload_statement.
C9_UnsupportedCarriesExtension ==
    /\ \A k \in DOMAIN result :
          (entry = "advanced"
           /\ Lower(Suffix(file.name)) \notin {".pdf", ".csv", ".xlsx", ".xls", ".jpg", ".jpeg",
                                               ".png", ".tiff"})
          => /\ result[k].error # None
             /\ Carries(result[k].error, {}, Lower(Suffix(file.name)))
             /\ result[k].transactions = <<>>
             /\ result[k].calls = <<>>
    /\ \A r \in DOMAIN req :
          (req[r].pc = "done" /\ req[r].file.name # "" /\ ~allowed_file(req[r].file.name))
          => /\ req[r].response.error # None
             /\ Carries(req[r].response.error, req[r].response.listing,
                        Extension(req[r].file.name))
             /\ req[r].response.transactions = <<>>
             /\ req[r].read = {}

\* the capability of the AI parser: the switch set, the module and the library
\* importable, the key set, the model initialised
Capable ==
    /\ config.use_gemini_fallback /\ config.gemini_module /\ config.genai
    /\ config.api_key /\ config.genai_init

\* C10: EnhancedPDFParser.parse_pdf invokes the AI parser only after every strategy
\* invoked before it returned zero transactions, and only when the capability is
\* configured and available; without the capability no parse invokes it.
C10_AiOnlyAsConfiguredFallback ==
    \A k \in DOMAIN result : \A j \in DOMAIN result[k].calls :
        result[k].calls[j].strategy = "gemini"
        => /\ Capable
           /\ \A i \in 1..(j - 1) : result[k].calls[i].count = 0
           /\ \E i \in 1..(j - 1) : result[k].calls[i].strategy = "generic"

\* C10 happens: a parse invoked the AI parser after the generic parser found nothing
C10_AiInvoked ==
    \E k \in DOMAIN result :
        /\ entry = "enhanced"
        /\ Len(result[k].calls) >= 2
        /\ result[k].calls[Len(result[k].calls)].strategy = "gemini"
        /\ result[k].calls[Len(result[k].calls) - 1] = Call("generic", 0)

\* C11: when the AI service is unavailable, unauthenticated, raises or answers with
\* text that cannot be parsed, parse_pdf and parse_with_image of GeminiPDFParser
\* return the empty list without raising, and a parse of EnhancedPDFParser.parse_pdf
\* that got nothing from its strategies and nothing from the AI parser ends with zero
\* transactions.
C11_AiFailureGivesZero ==
    /\ entry = "gemini" =>
          \A k \in DOMAIN result :
              /\ result[k].error = None
              /\ (result[k].calls = <<>> \/ result[k].calls = <<Call("service", -1)>>)
                 => result[k].transactions = <<>>
    /\ entry = "enhanced" =>
          \A k \in DOMAIN result :
              LET calls == result[k].calls IN
              (/\ calls # <<>>
               /\ \/ calls[Len(calls)] = Call("gemini", 0)
                  \/ calls[Len(calls)] = Call("generic", 0) /\ ~Capable)
              => result[k].transactions = <<>>

\* C12: the call of the AI service is bounded by a timeout, so that the parse of
\* EnhancedPDFParser.parse_pdf terminates also when the service never answers: a
\* parse that has not returned always has a step to take, before the call or out of
\* the call.
C12_AiCallIsBounded == wire.pc # "done" => (Enh_before_call \/ Gem_call_ends)


\* C13: no two transactions of a returned list have the same date, amount (in
\* hundredths), description (case and white space apart) and type, also when the
\* text repeats a line or the table a row.
IdentityKey(t) == <<t.date, t.amount, SplitJoin(Lower(t.description)), t.type>>

C13_ReturnedAreDeduplicated ==
    \A r \in 1..Len(result) :
        \A i, j \in 1..Len(result[r].transactions) :
            i # j => IdentityKey(result[r].transactions[i])
                     # IdentityKey(result[r].transactions[j])

\* C14: the extractors of lines never raise on a line: the pass over a text ends
\* without an exception, and every record a line gives when it is the only line of
\* the text is among the records of the text, whatever the other lines are.
LineRecords(parser, line) ==
    IF parser = "enhanced" THEN Enh_parse_transactions_from_text(<<line>>).txns
    ELSE IF parser = "free" THEN Free_parse_lines(<<line>>, 1)
    ELSE Adv_parse_pdf_with_pdfplumber(TextDoc(<<line>>)).txns

Among(t, txns) == \E i \in 1..Len(txns) : txns[i] = t

C14_LineNeverRaises ==
    file \in Texts =>
        \A r \in 1..Len(result) :
            /\ result[r].error = None
            /\ \A k \in 1..Len(file.pages[1].text) :
                  \A i \in 1..Len(LineRecords(entry, file.pages[1].text[k])) :
                      Among(LineRecords(entry, file.pages[1].text[k])[i],
                            result[r].transactions)

\* C15: the line "UPI-SWIGGY-FOOD ORDER ₹450.00 10/02/2024" gives exactly one
\* transaction, of category food_dining, type debit, amount 450.00 and date
\* 2024-02-10, with each extractor of lines.
C15_ScenarioLine ==
    file = TextDoc(<<ScenarioLine>>) =>
        \A r \in 1..Len(result) :
            /\ result[r].error = None
            /\ Len(result[r].transactions) = 1
            /\ result[r].transactions[1].category = "food_dining"
            /\ result[r].transactions[1].type = "debit"
            /\ result[r].transactions[1].amount = 45000
            /\ result[r].transactions[1].date = Ordinal(2024, 2, 10)

\* C16: a row of a table with a date and an amount other than zero in exactly one of
\* the columns Debit and Credit gives a transaction of that column's type and amount,
\* whatever the description and the balance of the row are.
UnitRows ==
    IF file.sheet # NoSheet THEN file.sheet.rows
    ELSE IF file.pages[1].tables = <<>> THEN <<>>
    ELSE [i \in 1..(Len(file.pages[1].tables[1]) - 1) |->
             [j \in 1..Len(file.pages[1].tables[1][i + 1]) |->
                 file.pages[1].tables[1][i + 1][j].s]]

NonZero(field) == FloatOf(field).ok /\ FloatOf(field).v # 0

OneAmount(row) == NonZero(row[3]) # NonZero(row[4])

FromItsColumn(row, t) ==
    IF NonZero(row[3]) THEN t.type = "debit" /\ t.amount = FloatOf(row[3]).v
    ELSE t.type = "credit" /\ t.amount = FloatOf(row[4]).v

C16_AmountFromItsColumn ==
    \A r \in 1..Len(result) :
        \A k \in 1..Len(UnitRows) :
            OneAmount(UnitRows[k]) =>
                /\ \E i \in 1..Len(result[r].transactions) :
                      result[r].transactions[i].date = Strptime(UnitRows[k][1], "%d/%m/%Y")
                /\ \A i \in 1..Len(result[r].transactions) :
                      result[r].transactions[i].date = Strptime(UnitRows[k][1], "%d/%m/%Y")
                      => FromItsColumn(UnitRows[k], result[r].transactions[i])

\* C17: the category of every transaction a parser returns, the entries of the AI
\* response included, is one of the fifteen categories of the enumeration.
CategoryEnumeration ==
    {"food_dining", "groceries", "fuel", "utilities", "entertainment", "transportation",
     "shopping", "medical", "education", "investment", "transfer", "salary",
     "bank_charges", "cash_withdrawal", "other"}

C17_CategoriesAreClosed ==
    \A k \in 1..Len(result) :
        \A i \in 1..Len(result[k].transactions) :
            result[k].transactions[i].category \in CategoryEnumeration

\* C18: the description of every returned transaction is not empty and has at most
\* 200 characters, and a row that has no description gives the label made of the
\* type of the record, "Debit Transaction" or "Credit Transaction".
TypeLabel(t) == Title(t.type) \o " Transaction"

C18_DescriptionsAreBounded ==
    \A r \in 1..Len(result) :
        \A i \in 1..Len(result[r].transactions) :
            /\ result[r].transactions[i].description # ""
            /\ Len(result[r].transactions[i].description) <= 200
            /\ \A k \in 1..Len(UnitRows) :
                  (/\ UnitRows[k][2] = ""
                   /\ result[r].transactions[i].date = Strptime(UnitRows[k][1], "%d/%m/%Y"))
                  => result[r].transactions[i].description
                     = TypeLabel(result[r].transactions[i])

\* C19: the method a parse of AdvancedBankStatementParser reports is the strategy
\* that produced the transactions it returns: the tables of pdfplumber are reported
\* as pdfplumber, camelot as camelot, OCR as ocr, the regex pass over the text is not
\* reported as one of the two table strategies, and a result without transactions
\* reports no method.
Producer(calls) ==
    calls[CHOOSE k \in 1..Len(calls) :
              calls[k].count > 0 /\ \A j \in (k + 1)..Len(calls) : calls[j].count <= 0].strategy

ReportedAs(method, strategy) ==
    IF strategy = "tables" THEN method = "pdfplumber"
    ELSE IF strategy = "regex" THEN method \notin {"pdfplumber", "camelot"}
    ELSE method = strategy

C19_MethodIsTheProducer ==
    entry = "advanced" =>
        \A k \in 1..Len(result) :
            IF result[k].transactions = <<>> THEN result[k].method = None
            ELSE ReportedAs(result[k].method, Producer(result[k].calls))

\* C20: the summary of a list that is not empty is a reduction of the list: the
\* totals are the sums of the amounts of the credits and of the debits, the net
\* amount their difference, the counts of the categories add up to the number of
\* transactions and their amounts to the two totals, the date range is the earliest
\* and the latest date, the banks are the banks of the records; and computing the
\* summary leaves the list as it was.
RECURSIVE Total(_, _)
Total(transactions, indices) ==
    IF indices = {} THEN 0
    ELSE LET k == CHOOSE k \in indices : TRUE
         IN transactions[k].amount + Total(transactions, indices \ {k})

RECURSIVE TotalOf(_, _, _)
TotalOf(breakdown, categories, field) ==
    IF categories = {} THEN 0
    ELSE LET c == CHOOSE c \in categories : TRUE
         IN breakdown[c][field] + TotalOf(breakdown, categories \ {c}, field)

Earliest(transactions, date) ==
    /\ \E k \in 1..Len(transactions) : transactions[k].date = date
    /\ \A k \in 1..Len(transactions) : date <= transactions[k].date

Latest(transactions, date) ==
    /\ \E k \in 1..Len(transactions) : transactions[k].date = date
    /\ \A k \in 1..Len(transactions) : transactions[k].date <= date

IsReduction(s, transactions, credits, debits) ==
    /\ s.total_credits = credits
    /\ s.total_debits = debits
    /\ entry = "advanced" =>
          /\ s.net_amount = credits - debits
          /\ TotalOf(s.category_breakdown, DOMAIN s.category_breakdown, "count")
             = Len(transactions)
          /\ TotalOf(s.category_breakdown, DOMAIN s.category_breakdown, "amount")
             = credits + debits
          /\ Earliest(transactions, Strptime(s.date_range.start, "%d/%m/%Y"))
          /\ Latest(transactions, Strptime(s.date_range.end, "%d/%m/%Y"))
          /\ s.banks = {transactions[k].bank : k \in 1..Len(transactions)}
    /\ entry = "upload" =>
          /\ s.net_balance = credits - debits
          /\ Earliest(transactions, Strptime(s.date_range.start, "%Y-%m-%d"))
          /\ Latest(transactions, Strptime(s.date_range.end, "%Y-%m-%d"))

SummariesAreReductions ==
    \A k \in 1..Len(summary) :
        result[1].transactions # <<>> =>
            IsReduction(summary[k], result[1].transactions,
                Total(result[1].transactions,
                      {i \in 1..Len(result[1].transactions) :
                          result[1].transactions[i].type = "credit"}),
                Total(result[1].transactions,
                      {i \in 1..Len(result[1].transactions) :
                          result[1].transactions[i].type = "debit"}))

WellFormed(txn) ==
    /\ txn.fields
    /\ Strptime(txn.date, "%Y-%m-%d") # NoDate
    /\ FloatOf(txn.amount).ok
    /\ FloatOf(txn.amount).v > 0

\* the transactions of the request that are to be imported: the well-formed ones
\* whose commit the database did not refuse
Importable(transactions, refused) ==
    {i \in 1..Len(transactions) : WellFormed(transactions[i]) /\ i \notin refused}

\* the import of a non-empty list has answered
ImportAnswered ==
    /\ entry = "import"
    /\ result # <<>>
    /\ req.is_json
    /\ req.transactions # <<>>
    /\ folder.user

\* C21: import_transactions on a non-empty list accounts for every received
\* transaction exactly once: the transactions imported are the well-formed ones
\* whose commit succeeded, one database row each; every other transaction has
\* exactly one entry of errors and no row; imported + len(errors) is
\* total_received; and a list of well-formed transactions all of whose commits
\* succeed answers success with imported equal to the number received.
C21_ImportAccountsForAll ==
    ImportAnswered =>
        /\ result[1].imported = Cardinality(Importable(req.transactions, folder.refused))
        /\ Len(folder.rows) = result[1].imported
        /\ {result[1].errors[k].txn : k \in DOMAIN result[1].errors}
              = (1..Len(req.transactions)) \ Importable(req.transactions, folder.refused)
        /\ result[1].imported + Len(result[1].errors) = result[1].total_received
        /\ result[1].total_received = Len(req.transactions)

\* an entry of the service response that passes the validation the contract states
Valid(txn) == WellFormed(txn) /\ txn.type \in {"credit", "debit"}

\* the record r is the entry txn, validated
IsEntry(r, txn) ==
    /\ r.date = Strptime(txn.date, "%Y-%m-%d")
    /\ r.amount = FloatOf(txn.amount).v
    /\ r.type = txn.type
    /\ r.description = Truncated(txn.description)

\* the returned records are the entries, one for one and in their order
AreEntries(returned, entries) ==
    /\ Len(returned) = Len(entries)
    /\ \A k \in 1..Len(entries) : IsEntry(returned[k], entries[k])

\* C22: every entry the AI extractor returns passed validation: an entry with a
\* missing field, a date that is not YYYY-MM-DD, an amount that is not a number
\* greater than 0 or a type outside {credit, debit} is dropped, and the entries
\* that remain are returned in the order of the response, whatever invalid entries
\* stand among them.
C22_ReturnedEntriesAreValid ==
    (entry \in {"gemini", "vision"} /\ result # <<>>) =>
        AreEntries(result[1], SelectSeq(req.transactions, Valid))

\* the numbers of the amount tokens, in hundredths
RECURSIVE TokenValues(_, _)
TokenValues(tokens, k) ==
    IF k > Len(tokens) THEN <<>>
    ELSE <<FloatOf(RemoveAll(tokens[k], ",")).v>> \o TokenValues(tokens, k + 1)

\* the amount tokens FreePDFParser finds in a line: those of the cleaned line
\* without its date
FreeTokensIn(cleaned) ==
    TokenValues(FindAllAmounts(Strip(RemoveAll(cleaned, Free_date_match(cleaned, 1))), 1,
                               Free_amount_pattern), 1)

\* the amount tokens each extractor of lines finds in a line
AmountTokens(parser, line) ==
    IF parser = "enhanced" THEN Enh_amounts(Strip(line))
    ELSE IF parser = "free" THEN FreeTokensIn(Free_clean_text(line))
    ELSE Adv_amounts(FindAllAmounts(Strip(line), 1, Adv_amount_pattern), 1)

\* C23: when a line has several amount tokens, each extractor of lines
\* (_parse_text_with_regex, EnhancedPDFParser._extract_transaction_from_line,
\* FreePDFParser._extract_transaction_line) emits the largest of them as the
\* amount of the transaction.
C23_LargestAmountIsEmitted ==
    (file \in Texts /\ Len(file.pages[1].text) = 1 /\ result # <<>>) =>
        \A i \in 1..Len(result[1].transactions) :
            result[1].transactions[i].amount
               = MaxOf(AmountTokens(entry, file.pages[1].text[1]))

\* the keywords of each extractor of lines: its own list of credit words, and its
\* debit words (_parse_text_with_regex lists none: debit and withdrawal, the two
\* of the contract)
CreditKeywords(parser) ==
    IF parser = "enhanced" THEN Enh_credit_keywords
    ELSE IF parser = "free" THEN {"credit", "cr", "deposit", "credited"}
    ELSE {"credit", "deposit", "cr"}

DebitKeywords(parser) ==
    IF parser = "enhanced" THEN Enh_debit_keywords
    ELSE IF parser = "free" THEN {"debit", "dr", "withdrawal", "debited"}
    ELSE {"debit", "withdrawal"}

\* the keyword stands in the line as a word of its own: no letter before it and no
\* letter after it
AsWord(line, keyword) ==
    \E i \in 1..Len(line) :
        /\ StartsAt(Lower(line), i, keyword)
        /\ (i = 1 \/ ~IsAlpha(Ch(line, i - 1)))
        /\ (i + Len(keyword) > Len(line) \/ ~IsAlpha(Ch(line, i + Len(keyword))))

HasKeyword(line, keywords) == \E keyword \in keywords : AsWord(line, keyword)

\* credit on a credit keyword alone, debit on a debit keyword and whenever the line
\* is ambiguous
Classified(parser, line) ==
    IF HasKeyword(line, CreditKeywords(parser)) /\ ~HasKeyword(line, DebitKeywords(parser))
    THEN "credit" ELSE "debit"

\* C24: an extractor of lines classifies a line as credit only on an explicit
\* credit keyword and as debit on an explicit debit keyword, and emits debit
\* whenever the line is ambiguous: no keyword, a credit and a debit keyword, or
\* the letters of a keyword inside another word only ('CR' in 'DESCRIPTION').
C24_TypeFollowsKeywords ==
    (file \in Texts /\ Len(file.pages[1].text) = 1 /\ result # <<>>) =>
        \A i \in 1..Len(result[1].transactions) :
            result[1].transactions[i].type = Classified(entry, file.pages[1].text[1])

\* the record without the category the cleaning gave it
Uncategorized(t) == [t EXCEPT !.category = NoCategory]

\* the transactions of the tables of a document, in document order: page by page,
\* table by table, row by row
InDocumentOrder(doc) ==
    Adv_page_tables(AllTables(doc.pages, 1), 1, Adv_detect_bank(JoinLines(doc.pages[1].text, 1)))

\* C25: for a document with several tables, _parse_pdf_with_pdfplumber processes
\* every table of every page and returns the transactions (those the cleaning
\* keeps) concatenated in document order; a table with fewer than two rows
\* contributes nothing and raises no error.
C25_TablesInDocumentOrder ==
    (entry = "advanced" /\ file \in TablesDocs /\ result # <<>>) =>
        /\ result[1].error = None
        /\ [k \in 1..Len(result[1].transactions) |-> Uncategorized(result[1].transactions[k])]
              = SelectSeq(InDocumentOrder(file), Adv_keeps)

\* the registry of each parser, and whether the pattern of its k-th bank matches
\* the sample when the case of the letters is set aside
Registry(parser) == IF parser = "csv.detect_bank" THEN Csv_bank_patterns ELSE BANK_PATTERNS

NameMatches(parser, k, sample) ==
    IF parser = "csv.detect_bank" THEN ContainsAny(Upper(sample), Csv_bank_patterns[k].name)
    ELSE \E a \in 1..Len(BANK_PATTERNS[k].name) :
             SearchWords(Upper(sample), [w \in 1..Len(BANK_PATTERNS[k].name[a]) |->
                                            Upper(BANK_PATTERNS[k].name[a][w])])

MatchingBanks(parser, sample) ==
    {k \in 1..Len(Registry(parser)) : NameMatches(parser, k, sample)}

\* the value that says the bank is not known
IsUnknown(bank) == Lower(bank) = "unknown"

DetectsBank(parser, sample, bank) ==
    IF MatchingBanks(parser, sample) = {} THEN IsUnknown(bank)
    ELSE bank = Registry(parser)[MinOf(MatchingBanks(parser, sample))].bank

\* C26: detect_bank tests the patterns of the registry in its order and without
\* regard to case, and returns the first bank whose pattern matches the sample
\* (the earlier of two that match); when none matches it returns the value
\* Unknown.
C26_FirstBankOrUnknown ==
    (entry \in {"advanced.detect_bank", "csv.detect_bank"} /\ result # <<>>) =>
        DetectsBank(entry, req, result[1])

\* the table of (category, pattern) pairs of each parser, the text its patterns
\* are searched in, and whether the k-th pattern matches the description.  The
\* last pair of the dicts, 'others': '.*', is the default and not a keyword pattern.
CategoryTable(parser) ==
    IF parser = "advanced.categorize" THEN Adv_CATEGORY_PATTERNS
    ELSE IF parser = "csv.categorize" THEN Csv_categories
    ELSE Enh_categories

Searched(parser, description) ==
    IF parser = "enhanced.categorize" THEN Lower(description) ELSE Upper(description)

PatternMatches(parser, k, description) ==
    \/ ContainsAny(Searched(parser, description), CategoryTable(parser)[k].words)
    \/ /\ parser # "enhanced.categorize"
       /\ \E w \in CategoryTable(parser)[k].spaced :
             SearchWords(Searched(parser, description), w)

MatchingPatterns(parser, description) ==
    {k \in 1..Len(CategoryTable(parser)) : PatternMatches(parser, k, description)}

Categorizes(parser, description, category) ==
    IF MatchingPatterns(parser, description) = {} THEN category = "other"
    ELSE category = CategoryTable(parser)[MinOf(MatchingPatterns(parser, description))].category

\* C27: _categorize_transaction applies the (category, pattern) pairs in the order
\* of the table and returns the category of the first pattern that matches the
\* description; a description that no keyword pattern matches gets the category
\* 'other'.
C27_FirstCategoryOrOther ==
    (entry \in {"advanced.categorize", "csv.categorize", "enhanced.categorize"}
     /\ result # <<>>) =>
        Categorizes(entry, req, result[1])

\* the pages of a scan on which the OCR returns, in page order
Recognized(pages) == SelectSeq(pages, LAMBDA page : page.recognized)

\* what the parser of the scan makes of the pages that were recognized
OfRecognized(parser, doc, env) ==
    IF parser = "free"
    THEN [text |-> Free_extract_text_from_pdf(doc, env), transactions |-> Free_parse_pdf(doc, env)]
    ELSE [transactions |-> Adv_parse_pdf_with_ocr(doc, env).txns]

\* C28: the OCR parsers of a scanned PDF process the pages independently and join the
\* texts in page order: a page on which recognition fails or returns no text does not
\* remove the text recognized on the other pages, so the parser returns what it would
\* return for the recognized pages alone; a scan with no readable page gives an empty
\* buffer and no transactions.
C28_PagesAreIndependent ==
    result # <<>> => result[1] = OfRecognized(entry, Paged(file.name, Recognized(file.pages)), config)

C28_PageFailed ==
    /\ result # <<>>
    /\ config.tesseract
    /\ \E k \in 1..Len(file.pages) : ~file.pages[k].recognized
    /\ \E k \in 1..Len(file.pages) : file.pages[k].recognized /\ file.pages[k].ocr # EmptyText

\* the positive amounts that follow "INR" on a line, in hundredths, in the order of
\* the columns
ColumnAmounts(line) == PositiveAmounts(FindAllAmounts(line, 1, Ind_inr_pattern), 1)

ThreePositive(line) == Len(ColumnAmounts(line)) = 3

\* C29: for a line with exactly three positive INR amounts (debit, credit, balance),
\* the type _parse_transaction_line emits agrees with the column of the amount it
\* emits: the first (debit) amount comes with the type debit, and the type credit comes
\* only with the second (credit) amount.
C29_TypeAgreesWithColumn ==
    (entry = "parse_transaction_line" /\ result # <<>> /\ ThreePositive(req)) =>
        \A k \in 1..Len(result[1]) :
            /\ result[1][k].amount = ColumnAmounts(req)[1] => result[1][k].type = "debit"
            /\ result[1][k].type = "credit" => result[1][k].amount = ColumnAmounts(req)[2]

\* the lines of the sample that hold the heading of the transactions, in any case
Markers == {line \in StatementLines : Contains(Lower(line), "account activity")}

IsMarker(line) == line \in Markers

\* the index of the first heading of a text, 0 when it has none
FirstMarker(text) ==
    LET markers == {k \in 1..Len(text) : IsMarker(text[k])} IN
    IF markers = {} THEN 0 ELSE CHOOSE k \in markers : \A j \in markers : k <= j

\* what a line after the heading gives when it is considered: nothing for a heading or
\* for the header of the table, else what _parse_transaction_line makes of it
ConsideredLine(line) ==
    IF IsMarker(line) \/ (Contains(line, "Date") /\ Contains(line, "Transaction Details"))
    THEN <<>>
    ELSE Ind_parse_transaction_line(Strip(line))

\* the same as a table over the lines of the sample
ConsideredLines == [line \in StatementLines |-> ConsideredLine(line)]

Considered(line) == ConsideredLines[line]

\* the lines after the first heading that give a transaction
Emitting(text) ==
    {k \in (FirstMarker(text) + 1)..Len(text) : Considered(text[k]) # <<>>}

\* the n-th smallest member of a set of integers
NthOf(S, n) == CHOOSE k \in S : Cardinality({j \in S : j <= k}) = n

\* C30: parse_text emits nothing for the lines up to and including the first line with
\* 'ACCOUNT ACTIVITY' in any case; from there on every later line is considered once,
\* whatever stands between, and the transactions emitted are those of the later lines
\* in line order; a text without the heading gives the empty list.
C30_AfterAccountActivity ==
    (entry = "parse_text" /\ result # <<>>) =>
        IF FirstMarker(req) = 0 THEN result[1] = <<>>
        ELSE /\ Len(result[1]) = Cardinality(Emitting(req))
             /\ \A n \in 1..Len(result[1]) :
                    <<result[1][n]>> = Considered(req[NthOf(Emitting(req), n)])

\* a transaction line before the heading is left out, and the two different lines
\* after it are emitted
C30_LinesAroundHeading ==
    /\ entry = "parse_text"
    /\ result # <<>>
    /\ FirstMarker(req) = 2
    /\ Considered(req[1]) # <<>>
    /\ Len(result[1]) = 2
    /\ result[1][1] # result[1][2]

=========================================================================
